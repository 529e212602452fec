---------------------------- MODULE ConfigStore ----------------------------
(***************************************************************************)
(* config.yaml and everything in the server that reads or replaces it:     *)
(* Registry.saveLocked (internal/server/registry.go), Manager.Update and   *)
(* Manager.Reload (internal/config/manager.go), and the handlers that set  *)
(* up or change the password and the settings (handlers.go).               *)
(*                                                                         *)
(* Both savers read the whole file, replace their own section, write       *)
(* config.yaml.tmp and rename it over config.yaml.  The registry holds its *)
(* own lock meanwhile; Update holds none; and both use the same temporary  *)
(* name.  A step below is one system call or one locked access, any of the *)
(* system calls may fail, and the process may be killed between any two.   *)
(***************************************************************************)
CONSTANTS
    Tables,      \* values of the table of hosts
    NoHosts,     \* the empty one
    Passwords, Tokens,
    Unset,       \* the empty password or token
    Requests,    \* requests that set up the password, change it or the settings
    Registry,    \* whoever is inside Registry.mu, saving the table
    Reloader,    \* whoever runs reloadConfig: the ticker's goroutine or a
                 \* request to /config/reload, one at a time
    Missing,     \* a section the file does not have
    Garbled,     \* file content that is not what any one writer wrote
    Absent,      \* no such file
    MayOverlap   \* TRUE: anything may run at the same time.
                 \* FALSE: a request runs alone; a periodic reload may
                 \* still coincide with the saving of the table.

Procs  == Requests \cup {Registry, Reloader}

Server == [pw : Passwords \cup {Unset}, token : Tokens \cup {Unset}]

DefaultServer == [pw |-> Unset, token |-> Unset]

(* An empty file and an empty YAML map decode alike. *)
Doc == [hosts : Tables \cup {Missing}, server : Server \cup {Missing}]
EmptyDoc == [hosts |-> Missing, server |-> Missing]

Content == Doc \cup {Garbled}

ASSUME NoHostsIsATable == NoHosts \in Tables
ASSUME MissingIsNoSection == Missing \notin Tables \cup Server
ASSUME GarbledIsNoDoc == Garbled \notin Doc /\ Absent \notin Content
ASSUME DistinctProcs ==
    Registry # Reloader /\ Registry \notin Requests /\ Reloader \notin Requests

VARIABLES
    file,     \* the content of config.yaml
    tmp,      \* the content of config.yaml.tmp, or Absent
    mem,      \* Manager.config
    table,    \* Registry.hosts
    pc,       \* the call each process makes next
    copy,     \* the configuration a request hands to Update
    payload,  \* the document a saver has encoded
    loaded,   \* the configuration a reload has read
    fd,       \* the file a saver's open descriptor refers to
    up        \* the server process is running

vars == <<file, tmp, mem, table, pc, copy, payload, loaded, fd, up>>

TypeOK ==
    /\ file \in Content
    /\ tmp \in Content \cup {Absent}
    /\ mem \in Server
    /\ table \in Tables
    /\ pc \in [Procs -> {"idle", "read", "open", "write", "rename",
                         "publish", "load", "set"}]
    /\ copy \in [Procs -> Server]
    /\ payload \in [Procs -> Doc]
    /\ loaded \in [Procs -> Server]
    /\ fd \in [Procs -> {"none", "tmp", "file", "gone"}]
    /\ up \in BOOLEAN

(* Any whole file, loaded. *)
Init ==
    /\ file \in [hosts : Tables, server : Server]
    /\ tmp = Absent
    /\ mem = file.server
    /\ table = file.hosts
    /\ pc = [p \in Procs |-> "idle"]
    /\ copy = [p \in Procs |-> DefaultServer]
    /\ payload = [p \in Procs |-> EmptyDoc]
    /\ loaded = [p \in Procs |-> DefaultServer]
    /\ fd = [p \in Procs |-> "none"]
    /\ up = TRUE

-----------------------------------------------------------------------------
(* Load falls back on defaults, OpenRegistry on no hosts, for a section    *)
(* that is not there.                                                      *)
HostsOf(d) == IF d.hosts = Missing THEN NoHosts ELSE d.hosts
ServerOf(d) == IF d.server = Missing THEN DefaultServer ELSE d.server

At(p, step) == up /\ pc[p] = step

Goto(p, step) == pc' = [pc EXCEPT ![p] = step]

(* A finished or failed call leaves nothing behind in its goroutine. *)
Finish(p) ==
    /\ pc' = [pc EXCEPT ![p] = "idle"]
    /\ copy' = [copy EXCEPT ![p] = DefaultServer]
    /\ payload' = [payload EXCEPT ![p] = EmptyDoc]
    /\ loaded' = [loaded EXCEPT ![p] = DefaultServer]
    /\ fd' = [fd EXCEPT ![p] = "none"]

(* The workload; see MayOverlap. *)
Admitted(p) ==
    /\ At(p, "idle")
    /\ MayOverlap \/ \A q \in Procs :
          pc[q] = "idle" \/ {p, q} = {Registry, Reloader}

(* Upsert and Delete change the map, then save it under the same lock. *)
BeginSave ==
    /\ Admitted(Registry)
    /\ table' \in Tables
    /\ Goto(Registry, "read")
    /\ UNCHANGED <<file, tmp, mem, copy, payload, loaded, fd, up>>

(* A handler works on a copy of the configuration and hands it to Update. *)
BeginUpdate(p, s) ==
    /\ Admitted(p)
    /\ copy' = [copy EXCEPT ![p] = s]
    /\ Goto(p, "read")
    /\ UNCHANGED <<file, tmp, mem, table, payload, loaded, fd, up>>

BeginSetupPassword(p) ==
    /\ mem.pw = Unset
    /\ \E pw \in Passwords : BeginUpdate(p, [mem EXCEPT !.pw = pw])

BeginChangePassword(p) ==
    /\ mem.pw # Unset
    /\ \E pw \in Passwords : BeginUpdate(p, [mem EXCEPT !.pw = pw])

(* Mutant: a token can be replaced by another. *)
BeginUpdateSettingsAgain(p) ==
    \E t \in Tokens \cup {Unset} :
        BeginUpdate(p, IF t = Unset THEN mem ELSE [mem EXCEPT !.token = t])

(* The settings form; the fields no property tells apart are left out. *)
BeginUpdateSettings(p) ==
    \E t \in Tokens \cup {Unset} :
        /\ mem.token = Unset \/ t = Unset
        /\ BeginUpdate(p, IF t = Unset THEN mem ELSE [mem EXCEPT !.token = t])

BeginReload ==
    /\ Admitted(Reloader)
    /\ Goto(Reloader, "load")
    /\ UNCHANGED <<file, tmp, mem, table, copy, payload, loaded, fd, up>>

-----------------------------------------------------------------------------
(* Mutant: the registry starts from an empty document. *)
ReadNothing(p) ==
    /\ At(p, "read")
    /\ file # Garbled
    /\ payload' = [payload EXCEPT ![p] =
          IF p = Registry THEN [EmptyDoc EXCEPT !.hosts = table]
                          ELSE [file EXCEPT !.server = copy[p]]]
    /\ Goto(p, "open")
    /\ UNCHANGED <<file, tmp, mem, table, copy, loaded, fd, up>>

(* Mutant: Update encodes the configuration it replaces. *)
ReadOldConfig(p) ==
    /\ At(p, "read")
    /\ file # Garbled
    /\ payload' = [payload EXCEPT ![p] =
          IF p = Registry THEN [file EXCEPT !.hosts = table]
                          ELSE [file EXCEPT !.server = mem]]
    /\ Goto(p, "open")
    /\ UNCHANGED <<file, tmp, mem, table, copy, loaded, fd, up>>

(* Read the whole file, decode it, replace one section, encode. *)
ReadFile(p) ==
    /\ At(p, "read")
    /\ file # Garbled
    /\ payload' = [payload EXCEPT ![p] =
          IF p = Registry THEN [file EXCEPT !.hosts = table]
                          ELSE [file EXCEPT !.server = copy[p]]]
    /\ Goto(p, "open")
    /\ UNCHANGED <<file, tmp, mem, table, copy, loaded, fd, up>>

(* Mutant: config.yaml itself is opened for writing. *)
OpenInPlace(p) ==
    /\ At(p, "open")
    /\ file' = EmptyDoc
    /\ fd' = [fd EXCEPT ![p] = "file"]
    /\ Goto(p, "write")
    /\ UNCHANGED <<tmp, mem, table, copy, payload, loaded, up>>

(* os.WriteFile opens with O_CREATE and O_TRUNC ... *)
OpenTmp(p) ==
    /\ At(p, "open")
    /\ tmp' = EmptyDoc
    /\ fd' = [fd EXCEPT ![p] = "tmp"]
    /\ Goto(p, "write")
    /\ UNCHANGED <<file, mem, table, copy, payload, loaded, up>>

(* ... and writes from offset 0: over what another writer has put into the *)
(* same file meanwhile, the end of the longer text may stay.               *)
Overwritten(c, d) == IF c = EmptyDoc THEN {d} ELSE {d, Garbled}

(* The bytes go where the descriptor points, whatever name that has now. *)
PutBytes(p, inTmp, inFile) ==
    /\ tmp'  \in (IF fd[p] = "tmp"  THEN inTmp  ELSE {tmp})
    /\ file' \in (IF fd[p] = "file" THEN inFile ELSE {file})

WriteTmp(p) ==
    /\ At(p, "write")
    /\ PutBytes(p, Overwritten(tmp, payload[p]), Overwritten(file, payload[p]))
    /\ fd' = [fd EXCEPT ![p] = "none"]
    /\ Goto(p, "rename")
    /\ UNCHANGED <<mem, table, copy, payload, loaded, up>>

(* rename(2) moves the file, not the name: open descriptors follow it, and *)
(* those of the file it replaces are left with no name.                    *)
Rename(p) ==
    /\ At(p, "rename")
    /\ tmp # Absent
    /\ file' = tmp
    /\ tmp' = Absent
    /\ IF p = Registry
       THEN /\ pc' = [pc EXCEPT ![p] = "idle"]
            /\ payload' = [payload EXCEPT ![p] = EmptyDoc]
       ELSE /\ Goto(p, "publish")
            /\ UNCHANGED payload
    /\ fd' = [q \in Procs |->
          CASE fd[q] = "tmp"  -> "file"
            [] fd[q] = "file" -> "gone"
            [] OTHER          -> fd[q]]
    /\ UNCHANGED <<mem, table, copy, loaded, up>>

(* Update's last step, under Manager.mu; then the handler calls Reload. *)
Publish(p) ==
    /\ At(p, "publish")
    /\ mem' = copy[p]
    /\ Goto(p, "load")
    /\ UNCHANGED <<file, tmp, table, copy, payload, loaded, fd, up>>

(* Reload: load and validate the file without a lock ... *)
LoadFile(p) ==
    /\ At(p, "load")
    /\ file # Garbled
    /\ loaded' = [loaded EXCEPT ![p] = ServerOf(file)]
    /\ Goto(p, "set")
    /\ UNCHANGED <<file, tmp, mem, table, copy, payload, fd, up>>

(* Mutant: the reloaded configuration is not stored. *)
SetNothing(p) ==
    /\ At(p, "set")
    /\ Finish(p)
    /\ UNCHANGED <<file, tmp, mem, table, up>>

(* ... then replace the configuration under Manager.mu.  A handler that    *)
(* gets here answers 200.                                                  *)
SetConfig(p) ==
    /\ At(p, "set")
    /\ mem' = loaded[p]
    /\ Finish(p)
    /\ UNCHANGED <<file, tmp, table, up>>

(***************************************************************************)
(* Any file operation may fail; the handler answers 500 and a periodic     *)
(* reload is logged.  A write that fails may have written a part.          *)
(***************************************************************************)
FailIO(p) ==
    /\ up
    /\ \/ /\ pc[p] \in {"read", "open", "rename", "load"}
          /\ UNCHANGED <<file, tmp>>
       \/ /\ pc[p] = "write"
          /\ PutBytes(p, {tmp, Garbled}, {file, Garbled})
    /\ Finish(p)
    /\ UNCHANGED <<mem, table, up>>

(* The process is killed: what it had in memory is gone. *)
Crash ==
    /\ up
    /\ up' = FALSE
    /\ pc' = [p \in Procs |-> "idle"]
    /\ copy' = [p \in Procs |-> DefaultServer]
    /\ payload' = [p \in Procs |-> EmptyDoc]
    /\ loaded' = [p \in Procs |-> DefaultServer]
    /\ fd' = [p \in Procs |-> "none"]
    /\ UNCHANGED <<file, tmp, mem, table>>

(* buildServerService: it does not start from a file it cannot decode.     *)
(* Seeding the registry with the hosts of the file, spelled as the program *)
(* writes them, puts the same document back.                               *)
Restart ==
    /\ ~up
    /\ file # Garbled
    /\ up' = TRUE
    /\ mem' = ServerOf(file)
    /\ table' = HostsOf(file)
    /\ UNCHANGED <<file, tmp, pc, copy, payload, loaded, fd>>

UpdateStep(p) ==
    \/ BeginSetupPassword(p)
    \/ BeginChangePassword(p)
    \/ BeginUpdateSettings(p)
    \/ Publish(p)

SaveStep(p) ==
    \/ ReadFile(p)
    \/ OpenTmp(p)
    \/ WriteTmp(p)
    \/ Rename(p)

ReloadStep(p) == LoadFile(p) \/ SetConfig(p)

Next ==
    \/ BeginSave
    \/ BeginReload
    \/ \E p \in Requests : UpdateStep(p)
    \/ \E p \in Requests \cup {Registry} : SaveStep(p)
    \/ \E p \in Requests \cup {Reloader} : ReloadStep(p)
    \/ \E p \in Procs : FailIO(p)
    \/ Crash
    \/ Restart

Spec == Init /\ [][Next]_vars

(* The ticker keeps firing and its goroutine keeps running; reading the    *)
(* file does not fail every time.                                          *)
Fairness ==
    /\ WF_vars(BeginReload)
    /\ SF_vars(LoadFile(Reloader))
    /\ WF_vars(ReloadStep(Reloader) \/ FailIO(Reloader))

FairSpec == Spec /\ Fairness

-----------------------------------------------------------------------------
(***************************************************************************)
(* config.yaml holds one writer's document with both sections, at every    *)
(* moment at which the process may die: "Write to temp file first, then    *)
(* rename" (manager.go).                                                   *)
(***************************************************************************)
FileWhole == file \in [hosts : Tables, server : Server]

(***************************************************************************)
(* A settings or password request that answers 200 has re-read the file    *)
(* "to verify persistence": what it wrote is on disk and in memory then.   *)
(***************************************************************************)
Answered(p) == up /\ up' /\ pc[p] = "set" /\ pc'[p] = "idle"

PersistedWhenAnswered ==
    \A p \in Requests :
        Answered(p) => file.server = copy[p] /\ mem' = copy[p]
AnsweredMeansPersisted == [][PersistedWhenAnswered]_vars

(***************************************************************************)
(* Saving the table keeps the rest of the file: saveLocked reads "entire   *)
(* config file to preserve server settings" and updates the hosts section, *)
(* "preserve everything else".  When it moves the document it encoded into *)
(* place, the settings on disk stay as they are.                           *)
(***************************************************************************)
SaveKeepsServer ==
    (/\ pc[Registry] = "rename" /\ pc'[Registry] = "idle" /\ up'
     /\ file \in Doc /\ file' = payload[Registry])
        => file'.server = file.server
RegistryPreservesSettings == [][SaveKeepsServer]_vars

(***************************************************************************)
(* Once nobody writes any more, the periodic reload makes the              *)
(* configuration in memory that of the file, whatever was lost, overtaken  *)
(* or reordered before: unless the file has become unreadable.             *)
(***************************************************************************)
Quiet == up /\ \A p \in Procs \ {Reloader} : pc[p] = "idle"

Converges == <>[]Quiet => <>[](file # Garbled => mem = ServerOf(file))

(***************************************************************************)
(* What a step does while nobody writes, whatever happened before: it      *)
(* leaves the file alone, what a reload has read stays what the file       *)
(* says, storing that settles the two, and nothing unsettles them.  So a   *)
(* reload that began before the quiet may still store something old, but   *)
(* the first one that begins and ends in it settles for good; Converges    *)
(* adds that, by fairness, there is such a reload.                         *)
(***************************************************************************)
Fresh ==
    pc[Reloader] = "set" /\ file # Garbled => loaded[Reloader] = ServerOf(file)
Settled == file # Garbled => mem = ServerOf(file)
Stores == pc[Reloader] = "set" /\ pc'[Reloader] # "set"

QuietSettles ==
    [][Quiet /\ Quiet' =>
          /\ file' = file
          /\ Fresh => Fresh'
          /\ Fresh /\ (Settled \/ Stores) => Settled' ]_vars

(* A periodic reload never writes. *)
ReloaderReads == pc[Reloader] \in {"idle", "load", "set"}

(***************************************************************************)
(* As long as savers and reloads do not overlap, the file is the durable   *)
(* two-section record of DurableConfig, failed calls and crashes included. *)
(***************************************************************************)
Durable == INSTANCE DurableConfig WITH disk <- file
ImplementsDurable == Durable!Spec

-----------------------------------------------------------------------------
(***************************************************************************)
(* The inductive invariant behind these properties, for MayOverlap =       *)
(* FALSE: where each process is, and what its local values and the two     *)
(* files have to do with each other there.                                 *)
(***************************************************************************)
Saving(p)    == pc[p] \in {"read", "open", "write", "rename"}
Verifying(p) == pc[p] \in {"publish", "load", "set"}

DownIsIdle == ~up => \A p \in Procs : pc[p] = "idle"

OneAtATime ==
    \A p, q \in Procs :
        p # q => \/ pc[p] = "idle"
                 \/ pc[q] = "idle"
                 \/ {p, q} = {Registry, Reloader}

OwnSteps == ~Verifying(Registry) /\ ~Saving(Reloader) /\ pc[Reloader] # "publish"

Descriptors ==
    \A p \in Procs : fd[p] = IF pc[p] = "write" THEN "tmp" ELSE "none"

PayloadCurrent ==
    \A p \in Procs : pc[p] \in {"open", "write", "rename"} =>
        payload[p] = IF p = Registry THEN [file EXCEPT !.hosts = table]
                                     ELSE [file EXCEPT !.server = copy[p]]

TmpCurrent ==
    \A p \in Procs : /\ pc[p] = "write" => tmp = EmptyDoc
                     /\ pc[p] = "rename" => tmp = payload[p]

(* What one request may change of the settings. *)
OneField(s, t) ==
    \/ t = s
    \/ \E pw \in Passwords : t = [s EXCEPT !.pw = pw]
    \/ s.token = Unset /\ \E k \in Tokens : t = [s EXCEPT !.token = k]

CopyCurrent ==
    \A p \in Requests : /\ Saving(p) => OneField(file.server, copy[p])
                        /\ Verifying(p) => file.server = copy[p]

LoadedCurrent == \A p \in Procs : pc[p] = "set" => loaded[p] = file.server

MemFollowsFile ==
    (up /\ \A p \in Requests : pc[p] # "publish") => mem = file.server

CalmInv ==
    /\ TypeOK
    /\ FileWhole
    /\ DownIsIdle
    /\ OneAtATime
    /\ OwnSteps
    /\ Descriptors
    /\ PayloadCurrent
    /\ TmpCurrent
    /\ CopyCurrent
    /\ LoadedCurrent
    /\ MemFollowsFile
=============================================================================
