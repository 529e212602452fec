------------------------- MODULE ConfigStoreProofs -------------------------
(***************************************************************************)
(* Proofs about ConfigStore for any sets of requests, passwords, tokens    *)
(* and tables.  While savers and reloads do not overlap: the inductive     *)
(* invariant CalmInv, the integrity of the file, and that the file         *)
(* implements DurableConfig.  Under any overlap: types, and that memory    *)
(* and file settle once nobody writes.                                     *)
(***************************************************************************)
EXTENDS ConfigStore, TLAPS

USE NoHostsIsATable, MissingIsNoSection, GarbledIsNoDoc, DistinctProcs

(* A whole file is a document, and its own server section is what a reload *)
(* finds in it.                                                            *)
LEMMA WholeFile ==
    ASSUME FileWhole
    PROVE  /\ file \in Doc /\ file # Garbled
           /\ file.hosts \in Tables /\ file.server \in Server
           /\ ServerOf(file) = file.server
           /\ HostsOf(file) = file.hosts
BY DEF FileWhole, Doc, ServerOf, HostsOf

(* The settings Load falls back on are settings. *)
LEMMA DefaultServerType == DefaultServer \in Server
BY DEF DefaultServer, Server

(* An empty file is a document. *)
LEMMA EmptyDocType == EmptyDoc \in Doc
BY DEF EmptyDoc, Doc

(* Two processes that are both busy are the registry and the reloader. *)
LEMMA OthersIdle ==
    ASSUME CalmInv, NEW p \in Procs, pc[p] # "idle", NEW q \in Procs, q # p,
           pc[q] # "idle"
    PROVE  /\ p = Registry => q = Reloader
           /\ p = Reloader => q = Registry
           /\ p \notin Requests
BY DEF CalmInv, OneAtATime, Procs

(* The server starts from a whole file, with nobody working on it. *)
THEOREM CalmInitial == Init => CalmInv
<1> SUFFICES ASSUME Init PROVE CalmInv
  OBVIOUS
<1>1. FileWhole
  BY DEF Init, FileWhole
<1>2. TypeOK
  BY <1>1, WholeFile, DefaultServerType, EmptyDocType DEF Init, TypeOK, Content
<1>3. \A p \in Procs : pc[p] = "idle" /\ fd[p] = "none"
  BY DEF Init
<1>4. Registry \in Procs /\ Reloader \in Procs /\ Requests \subseteq Procs
  BY DEF Procs
<1>5. QED
  BY <1>1, <1>2, <1>3, <1>4
     DEF Init, CalmInv, DownIsIdle, OneAtATime, OwnSteps, Descriptors,
         PayloadCurrent, TmpCurrent, CopyCurrent, LoadedCurrent,
         MemFollowsFile, Saving, Verifying

-----------------------------------------------------------------------------
(* A process starts alone, or as the other one of registry and reloader. *)
LEMMA AdmittedAlone ==
    ASSUME CalmInv, ~MayOverlap, NEW p \in Procs, Admitted(p)
    PROVE  /\ up /\ pc[p] = "idle"
           /\ \A q \in Procs : pc[q] = "idle" \/ {p, q} = {Registry, Reloader}
BY DEF Admitted, At

(* Upsert and Delete change the table in memory: no one has encoded the    *)
(* old one.                                                                *)
LEMMA BeginSaveCalm ==
    ASSUME CalmInv, ~MayOverlap, BeginSave
    PROVE  CalmInv'
<1>1. Registry \in Procs /\ Requests \subseteq Procs
  BY DEF Procs
<1>2. /\ up
      /\ \A q \in Procs : pc[q] = "idle" \/ q = Reloader
  BY <1>1, AdmittedAlone DEF BeginSave
<1>3. /\ pc' = [pc EXCEPT ![Registry] = "read"] /\ table' \in Tables
      /\ file' = file /\ tmp' = tmp /\ mem' = mem /\ copy' = copy
      /\ payload' = payload /\ loaded' = loaded /\ fd' = fd /\ up' = up
  BY DEF BeginSave, Goto
<1>4. TypeOK' /\ FileWhole'
  BY <1>1, <1>3 DEF CalmInv, TypeOK, FileWhole
<1>5. /\ pc'[Registry] = "read"
      /\ \A q \in Procs \ {Registry} : pc'[q] = pc[q]
      /\ pc'[Reloader] \in {"idle", "load", "set"}
  BY <1>1, <1>3 DEF CalmInv, TypeOK, OwnSteps, Saving, Procs
<1>6. DownIsIdle' /\ OneAtATime' /\ OwnSteps' /\ Descriptors'
  BY <1>1, <1>2, <1>3, <1>5
     DEF CalmInv, DownIsIdle, OneAtATime, OwnSteps, Descriptors, Saving, Verifying
<1>7. PayloadCurrent' /\ TmpCurrent'
  BY <1>2, <1>3, <1>5 DEF CalmInv, PayloadCurrent, TmpCurrent
<1>8. CopyCurrent' /\ LoadedCurrent' /\ MemFollowsFile'
  BY <1>1, <1>2, <1>3, <1>5
     DEF CalmInv, CopyCurrent, LoadedCurrent, MemFollowsFile, Saving, Verifying
<1>9. QED
  BY <1>4, <1>6, <1>7, <1>8 DEF CalmInv

(* The periodic reload starts beside at most a save of the table. *)
LEMMA BeginReloadCalm ==
    ASSUME CalmInv, ~MayOverlap, BeginReload
    PROVE  CalmInv'
<1>1. Reloader \in Procs /\ Registry \in Procs /\ Requests \subseteq Procs
  BY DEF Procs
<1>2. /\ up
      /\ \A q \in Procs : pc[q] = "idle" \/ q = Registry
  BY <1>1, AdmittedAlone DEF BeginReload
<1>3. /\ pc' = [pc EXCEPT ![Reloader] = "load"] /\ table' = table
      /\ file' = file /\ tmp' = tmp /\ mem' = mem /\ copy' = copy
      /\ payload' = payload /\ loaded' = loaded /\ fd' = fd /\ up' = up
  BY DEF BeginReload, Goto
<1>4. TypeOK' /\ FileWhole'
  BY <1>1, <1>3 DEF CalmInv, TypeOK, FileWhole
<1>5. /\ pc[Reloader] = "idle" /\ pc'[Reloader] = "load"
      /\ \A q \in Procs \ {Reloader} : pc'[q] = pc[q]
  BY <1>1, <1>2, <1>3 DEF CalmInv, TypeOK
<1>6. DownIsIdle' /\ OneAtATime' /\ OwnSteps' /\ Descriptors'
  BY <1>1, <1>2, <1>3, <1>5
     DEF CalmInv, DownIsIdle, OneAtATime, OwnSteps, Descriptors, Saving, Verifying
<1>7. PayloadCurrent' /\ TmpCurrent'
  BY <1>2, <1>3, <1>5 DEF CalmInv, PayloadCurrent, TmpCurrent
<1>8. CopyCurrent' /\ LoadedCurrent' /\ MemFollowsFile'
  BY <1>1, <1>2, <1>3, <1>5
     DEF CalmInv, CopyCurrent, LoadedCurrent, MemFollowsFile, Saving, Verifying
<1>9. QED
  BY <1>4, <1>6, <1>7, <1>8 DEF CalmInv

(* All three handlers hand a copy of the configuration with at most one    *)
(* field changed to Update.                                                *)
LEMMA BeginUpdateCalm ==
    ASSUME CalmInv, ~MayOverlap, NEW p \in Requests,
           BeginSetupPassword(p) \/ BeginChangePassword(p) \/ BeginUpdateSettings(p)
    PROVE  CalmInv'
<1>1. /\ p \in Procs /\ Reloader \in Procs /\ Registry \in Procs
      /\ Requests \subseteq Procs /\ p # Registry /\ p # Reloader
  BY DEF Procs
<1>2. mem \in Server
  BY DEF CalmInv, TypeOK
<1>3. PICK s \in Server : BeginUpdate(p, s) /\ OneField(mem, s)
  BY <1>2 DEF BeginSetupPassword, BeginChangePassword, BeginUpdateSettings,
     OneField, Server
<1>4. /\ up
      /\ \A q \in Procs : pc[q] = "idle"
  BY <1>1, <1>3, AdmittedAlone DEF BeginUpdate
<1>5. mem = file.server
  BY <1>1, <1>4 DEF CalmInv, MemFollowsFile
<1>6. /\ pc' = [pc EXCEPT ![p] = "read"] /\ copy' = [copy EXCEPT ![p] = s]
      /\ file' = file /\ tmp' = tmp /\ mem' = mem /\ table' = table
      /\ payload' = payload /\ loaded' = loaded /\ fd' = fd /\ up' = up
  BY <1>3 DEF BeginUpdate, Goto
<1>7. TypeOK' /\ FileWhole'
  BY <1>1, <1>6 DEF CalmInv, TypeOK, FileWhole
<1>8. /\ pc'[p] = "read" /\ copy'[p] = s
      /\ \A q \in Procs \ {p} : pc'[q] = "idle"
  BY <1>1, <1>4, <1>6 DEF CalmInv, TypeOK
<1>9. DownIsIdle' /\ OneAtATime' /\ OwnSteps' /\ Descriptors'
  BY <1>1, <1>4, <1>6, <1>8
     DEF CalmInv, DownIsIdle, OneAtATime, OwnSteps, Descriptors, Saving, Verifying
<1>10. PayloadCurrent' /\ TmpCurrent' /\ LoadedCurrent' /\ MemFollowsFile'
  BY <1>1, <1>5, <1>6, <1>8
     DEF PayloadCurrent, TmpCurrent, LoadedCurrent, MemFollowsFile
<1>11. CopyCurrent'
  <2>1. OneField(file.server, s)'
    BY <1>3, <1>5, <1>6 DEF OneField
  <2>2. QED
    BY <1>1, <1>6, <1>8, <2>1 DEF CopyCurrent, Saving, Verifying, OneField
<1>12. QED
  BY <1>7, <1>9, <1>10, <1>11 DEF CalmInv

(* A saver encodes the file as it is, but for its own section. *)
LEMMA ReadFileCalm ==
    ASSUME CalmInv, NEW p \in Requests \cup {Registry}, ReadFile(p)
    PROVE  CalmInv'
<1> DEFINE d == IF p = Registry THEN [file EXCEPT !.hosts = table]
                                ELSE [file EXCEPT !.server = copy[p]]
<1>1. /\ p \in Procs /\ Requests \subseteq Procs
      /\ p # Reloader
  BY DEF Procs
<1>2. /\ up /\ pc[p] = "read"
      /\ pc' = [pc EXCEPT ![p] = "open"] /\ payload' = [payload EXCEPT ![p] = d]
      /\ file' = file /\ tmp' = tmp /\ mem' = mem /\ table' = table
      /\ copy' = copy /\ loaded' = loaded /\ fd' = fd /\ up' = up
  BY DEF ReadFile, At, Goto
<1>3. d \in Doc
  BY <1>1, WholeFile DEF CalmInv, TypeOK, Doc
<1> HIDE DEF d
<1>4. TypeOK' /\ FileWhole'
  BY <1>1, <1>2, <1>3 DEF CalmInv, TypeOK, FileWhole
<1>5. /\ pc'[p] = "open" /\ payload'[p] = d
      /\ \A q \in Procs \ {p} : pc'[q] = pc[q] /\ payload'[q] = payload[q]
  BY <1>1, <1>2 DEF CalmInv, TypeOK
<1>6. DownIsIdle' /\ OneAtATime' /\ OwnSteps' /\ Descriptors'
  BY <1>1, <1>2, <1>5
     DEF CalmInv, DownIsIdle, OneAtATime, OwnSteps, Descriptors, Saving,
         Verifying, Procs
<1>7. PayloadCurrent'
  BY <1>1, <1>2, <1>5 DEF CalmInv, PayloadCurrent, d
<1>8. TmpCurrent' /\ CopyCurrent' /\ LoadedCurrent' /\ MemFollowsFile'
  BY <1>1, <1>2, <1>5
     DEF CalmInv, TmpCurrent, CopyCurrent, LoadedCurrent, MemFollowsFile,
         Saving, Verifying, OneField
<1>9. QED
  BY <1>4, <1>6, <1>7, <1>8 DEF CalmInv

(* The temporary file is truncated, and no other saver has it open. *)
LEMMA OpenTmpCalm ==
    ASSUME CalmInv, NEW p \in Requests \cup {Registry}, OpenTmp(p)
    PROVE  CalmInv'
<1>1. p \in Procs /\ Requests \subseteq Procs /\ p # Reloader
  BY DEF Procs
<1>2. /\ up /\ pc[p] = "open"
      /\ pc' = [pc EXCEPT ![p] = "write"] /\ fd' = [fd EXCEPT ![p] = "tmp"]
      /\ tmp' = EmptyDoc
      /\ file' = file /\ mem' = mem /\ table' = table /\ copy' = copy
      /\ payload' = payload /\ loaded' = loaded /\ up' = up
  BY DEF OpenTmp, At, Goto
<1>3. TypeOK' /\ FileWhole'
  BY <1>1, <1>2, EmptyDocType DEF CalmInv, TypeOK, FileWhole, Content
<1>4. /\ pc'[p] = "write" /\ fd'[p] = "tmp"
      /\ \A q \in Procs \ {p} : pc'[q] = pc[q] /\ fd'[q] = fd[q]
      /\ \A q \in Procs \ {p} : pc[q] = "idle" \/ q = Reloader
  BY <1>1, <1>2, OthersIdle DEF CalmInv, TypeOK, Procs
<1>5. DownIsIdle' /\ OneAtATime' /\ OwnSteps' /\ Descriptors'
  BY <1>1, <1>2, <1>4
     DEF CalmInv, DownIsIdle, OneAtATime, OwnSteps, Descriptors, Saving,
         Verifying, Procs
<1>6. PayloadCurrent' /\ TmpCurrent'
  BY <1>1, <1>2, <1>4
     DEF CalmInv, PayloadCurrent, TmpCurrent, OwnSteps, Saving
<1>7. CopyCurrent' /\ LoadedCurrent' /\ MemFollowsFile'
  BY <1>1, <1>2, <1>4
     DEF CalmInv, CopyCurrent, LoadedCurrent, MemFollowsFile, Saving,
         Verifying, OneField
<1>8. QED
  BY <1>3, <1>5, <1>6, <1>7 DEF CalmInv

(* The temporary file receives the whole document of its only writer. *)
LEMMA WriteTmpCalm ==
    ASSUME CalmInv, NEW p \in Requests \cup {Registry}, WriteTmp(p)
    PROVE  CalmInv'
<1>1. p \in Procs /\ Requests \subseteq Procs /\ p # Reloader
  BY DEF Procs
<1>2. /\ up /\ pc[p] = "write" /\ fd[p] = "tmp" /\ tmp = EmptyDoc
  BY <1>1 DEF WriteTmp, At, CalmInv, Descriptors, TmpCurrent
<1>3. /\ pc' = [pc EXCEPT ![p] = "rename"] /\ fd' = [fd EXCEPT ![p] = "none"]
      /\ tmp' = payload[p]
      /\ file' = file /\ mem' = mem /\ table' = table /\ copy' = copy
      /\ payload' = payload /\ loaded' = loaded /\ up' = up
  BY <1>2 DEF WriteTmp, PutBytes, Overwritten, Goto
<1>4. TypeOK' /\ FileWhole'
  BY <1>1, <1>3 DEF CalmInv, TypeOK, FileWhole, Content
<1>5. /\ pc'[p] = "rename" /\ fd'[p] = "none"
      /\ \A q \in Procs \ {p} : pc'[q] = pc[q] /\ fd'[q] = fd[q]
      /\ \A q \in Procs \ {p} : pc[q] = "idle" \/ q = Reloader
  BY <1>1, <1>2, <1>3, OthersIdle DEF CalmInv, TypeOK, Procs
<1>6. DownIsIdle' /\ OneAtATime' /\ OwnSteps' /\ Descriptors'
  BY <1>1, <1>2, <1>3, <1>5
     DEF CalmInv, DownIsIdle, OneAtATime, OwnSteps, Descriptors, Saving,
         Verifying, Procs
<1>7. PayloadCurrent' /\ TmpCurrent'
  BY <1>1, <1>2, <1>3, <1>5
     DEF CalmInv, PayloadCurrent, TmpCurrent, OwnSteps, Saving
<1>8. CopyCurrent' /\ LoadedCurrent' /\ MemFollowsFile'
  BY <1>1, <1>2, <1>3, <1>5
     DEF CalmInv, CopyCurrent, LoadedCurrent, MemFollowsFile, Saving,
         Verifying, OneField
<1>9. QED
  BY <1>4, <1>6, <1>7, <1>8 DEF CalmInv

(* The file is replaced by the document the same process has encoded: one  *)
(* section is new, the other is the one on disk.                           *)
LEMMA RenameReplacesOneSection ==
    ASSUME CalmInv, NEW p \in Requests \cup {Registry}, Rename(p)
    PROVE  /\ file' = payload[p]
           /\ p = Registry => file' = [file EXCEPT !.hosts = table]
           /\ p # Registry => /\ file' = [file EXCEPT !.server = copy[p]]
                              /\ OneField(file.server, copy[p])
BY DEF Rename, At, CalmInv, TmpCurrent, PayloadCurrent, CopyCurrent, Saving, Procs

(* The file becomes the document that was encoded, one section of it new.  *)
LEMMA RenameCalm ==
    ASSUME CalmInv, NEW p \in Requests \cup {Registry}, Rename(p)
    PROVE  CalmInv'
<1>1. p \in Procs /\ Requests \subseteq Procs /\ p # Reloader
  BY DEF Procs
<1>2. /\ up /\ pc[p] = "rename"
      /\ tmp' = Absent /\ mem' = mem /\ table' = table /\ copy' = copy
      /\ loaded' = loaded /\ up' = up
      /\ p = Registry => /\ pc' = [pc EXCEPT ![p] = "idle"]
                         /\ payload' = [payload EXCEPT ![p] = EmptyDoc]
      /\ p # Registry => /\ pc' = [pc EXCEPT ![p] = "publish"]
                         /\ payload' = payload
  BY DEF Rename, At, Goto
<1>3. /\ \A q \in Procs \ {p} : pc'[q] = pc[q] /\ payload'[q] = payload[q]
      /\ \A q \in Procs \ {p} : pc[q] = "idle" \/ q = Reloader
      /\ pc'[p] = IF p = Registry THEN "idle" ELSE "publish"
  BY <1>1, <1>2, OthersIdle DEF CalmInv, TypeOK, Procs
<1>4. fd' = fd
  <2>1. \A q \in Procs : fd[q] = "none"
    BY <1>1, <1>2, <1>3 DEF CalmInv, Descriptors, OwnSteps, Saving
  <2>2. fd' = [q \in Procs |-> fd[q]]
    BY <2>1 DEF Rename
  <2>3. QED
    BY <2>2 DEF CalmInv, TypeOK
<1>5. /\ file' \in [hosts : Tables, server : Server]
      /\ p = Registry => file'.server = file.server
      /\ p # Registry => file'.server = copy[p]
  <2>1. copy[p] \in Server /\ table \in Tables
    BY <1>1 DEF CalmInv, TypeOK
  <2>2. QED
    BY <2>1, RenameReplacesOneSection DEF CalmInv, FileWhole
<1>6. TypeOK' /\ FileWhole'
  <2>1. FileWhole'
    BY <1>5 DEF FileWhole
  <2>2. file' \in Content /\ tmp' \in Content \cup {Absent}
    BY <1>2, <1>5 DEF Content, Doc
  <2>3. pc' \in [Procs -> {"idle", "read", "open", "write", "rename",
                           "publish", "load", "set"}]
    BY <1>1, <1>2 DEF CalmInv, TypeOK
  <2>4. payload' \in [Procs -> Doc]
    BY <1>1, <1>2, EmptyDocType DEF CalmInv, TypeOK
  <2>5. QED
    BY <1>2, <1>4, <2>1, <2>2, <2>3, <2>4 DEF CalmInv, TypeOK
<1>7. DownIsIdle' /\ OneAtATime' /\ OwnSteps' /\ Descriptors'
  BY <1>1, <1>2, <1>3, <1>4
     DEF CalmInv, DownIsIdle, OneAtATime, OwnSteps, Descriptors, Saving,
         Verifying, Procs
<1>8. PayloadCurrent' /\ TmpCurrent'
  BY <1>1, <1>2, <1>3
     DEF CalmInv, PayloadCurrent, TmpCurrent, OwnSteps, Saving
<1>9. CopyCurrent'
  BY <1>1, <1>2, <1>3, <1>5
     DEF CopyCurrent, Saving, Verifying, Procs, OneField
<1>10. LoadedCurrent'
  <2>1. p # Registry => \A q \in Procs \ {p} : pc[q] = "idle"
    BY <1>1, <1>2, OthersIdle DEF Procs
  <2>2. QED
    BY <2>1, <1>1, <1>2, <1>3, <1>5 DEF CalmInv, LoadedCurrent, Procs
<1>11. MemFollowsFile'
  BY <1>1, <1>2, <1>3, <1>5 DEF CalmInv, MemFollowsFile, Procs
<1>12. QED
  BY <1>6, <1>7, <1>8, <1>9, <1>10, <1>11 DEF CalmInv

(* Update makes memory what it has just put on disk. *)
LEMMA PublishCalm ==
    ASSUME CalmInv, NEW p \in Requests, Publish(p)
    PROVE  CalmInv'
<1>1. p \in Procs /\ Requests \subseteq Procs /\ p # Registry /\ p # Reloader
  BY DEF Procs
<1>2. /\ up /\ pc[p] = "publish"
      /\ pc' = [pc EXCEPT ![p] = "load"] /\ mem' = copy[p]
      /\ file' = file /\ tmp' = tmp /\ table' = table /\ copy' = copy
      /\ payload' = payload /\ loaded' = loaded /\ fd' = fd /\ up' = up
  BY DEF Publish, At, Goto
<1>3. /\ pc'[p] = "load"
      /\ \A q \in Procs \ {p} : pc'[q] = "idle" /\ pc[q] = "idle"
  BY <1>1, <1>2, OthersIdle DEF CalmInv, TypeOK
<1>4. TypeOK' /\ FileWhole'
  BY <1>1, <1>2 DEF CalmInv, TypeOK, FileWhole
<1>5. mem' = file.server
  BY <1>2 DEF CalmInv, CopyCurrent, Verifying
<1>6. DownIsIdle' /\ OneAtATime' /\ OwnSteps' /\ Descriptors'
  BY <1>1, <1>2, <1>3
     DEF CalmInv, DownIsIdle, OneAtATime, OwnSteps, Descriptors, Saving,
         Verifying, Procs
<1>7. PayloadCurrent' /\ TmpCurrent' /\ LoadedCurrent' /\ MemFollowsFile'
  BY <1>1, <1>2, <1>3, <1>5
     DEF PayloadCurrent, TmpCurrent, LoadedCurrent, MemFollowsFile
<1>8. CopyCurrent'
  BY <1>1, <1>2, <1>3 DEF CalmInv, CopyCurrent, Saving, Verifying
<1>9. QED
  BY <1>4, <1>6, <1>7, <1>8 DEF CalmInv

(* A reload, or a verification, reads the settings the file holds. *)
LEMMA LoadFileCalm ==
    ASSUME CalmInv, NEW p \in Requests \cup {Reloader}, LoadFile(p)
    PROVE  CalmInv'
<1>1. p \in Procs /\ Requests \subseteq Procs /\ p # Registry
  BY DEF Procs
<1>2. /\ up /\ pc[p] = "load" /\ mem' = mem
      /\ pc' = [pc EXCEPT ![p] = "set"]
      /\ loaded' = [loaded EXCEPT ![p] = file.server]
      /\ file' = file /\ tmp' = tmp /\ table' = table /\ copy' = copy
      /\ payload' = payload /\ fd' = fd /\ up' = up
  BY WholeFile DEF LoadFile, At, Goto, CalmInv
<1>3. /\ pc'[p] = "set" /\ loaded'[p] = file.server
      /\ \A q \in Procs \ {p} : pc'[q] = pc[q] /\ loaded'[q] = loaded[q]
  BY <1>1, <1>2 DEF CalmInv, TypeOK
<1>4. TypeOK' /\ FileWhole'
  BY <1>1, <1>2, WholeFile DEF CalmInv, TypeOK, FileWhole
<1>5. DownIsIdle' /\ OneAtATime' /\ OwnSteps' /\ Descriptors'
  BY <1>1, <1>2, <1>3
     DEF CalmInv, DownIsIdle, OneAtATime, OwnSteps, Descriptors, Saving,
         Verifying, Procs
<1>6. PayloadCurrent' /\ TmpCurrent' /\ LoadedCurrent' /\ MemFollowsFile'
  BY <1>1, <1>2, <1>3
     DEF CalmInv, PayloadCurrent, TmpCurrent, LoadedCurrent, MemFollowsFile, Procs
<1>7. CopyCurrent'
  BY <1>1, <1>2, <1>3 DEF CalmInv, CopyCurrent, Saving, Verifying, OneField
<1>8. QED
  BY <1>4, <1>5, <1>6, <1>7 DEF CalmInv

(* Finishing a call, whatever it has left in the temporary file. *)
LEMMA FinishCalm ==
    ASSUME CalmInv, NEW p \in Procs, pc[p] # "idle", pc[p] # "publish",
           Finish(p), up' = up, file' = file, mem' = mem, table' = table,
           tmp' \in Content \cup {Absent},
           tmp' = tmp \/ pc[p] = "write"
    PROVE  CalmInv'
<1>1. /\ Requests \subseteq Procs /\ Registry \in Procs /\ Reloader \in Procs
      /\ Registry \notin Requests /\ Reloader \notin Requests
  BY DEF Procs
<1>2. up
  BY DEF CalmInv, DownIsIdle
<1>3. /\ pc' = [pc EXCEPT ![p] = "idle"]
      /\ copy' = [copy EXCEPT ![p] = DefaultServer]
      /\ payload' = [payload EXCEPT ![p] = EmptyDoc]
      /\ loaded' = [loaded EXCEPT ![p] = DefaultServer]
      /\ fd' = [fd EXCEPT ![p] = "none"]
  BY DEF Finish
<1>4. TypeOK' /\ FileWhole'
  BY <1>3, DefaultServerType, EmptyDocType DEF CalmInv, TypeOK, FileWhole
<1>5. /\ pc'[p] = "idle" /\ fd'[p] = "none"
      /\ \A q \in Procs \ {p} :
            /\ pc'[q] = pc[q] /\ copy'[q] = copy[q] /\ fd'[q] = fd[q]
            /\ payload'[q] = payload[q] /\ loaded'[q] = loaded[q]
  BY <1>3 DEF CalmInv, TypeOK
<1>6. DownIsIdle' /\ OneAtATime' /\ OwnSteps' /\ Descriptors'
  BY <1>1, <1>2, <1>5
     DEF CalmInv, DownIsIdle, OneAtATime, OwnSteps, Descriptors, Saving, Verifying
<1>7. PayloadCurrent' /\ LoadedCurrent'
  BY <1>5 DEF CalmInv, PayloadCurrent, LoadedCurrent
<1>8. TmpCurrent'
  <2>1. pc[p] = "write" => \A q \in Procs \ {p} : pc[q] \notin {"write", "rename"}
    BY <1>1, OthersIdle DEF CalmInv, OwnSteps, Saving, Verifying, Procs
  <2>2. QED
    BY <2>1, <1>5 DEF CalmInv, TmpCurrent
<1>9. CopyCurrent'
  <2> SUFFICES ASSUME NEW q \in Requests
               PROVE  /\ Saving(q)' => OneField(file.server, copy[q])'
                      /\ Verifying(q)' => file'.server = copy'[q]
    BY DEF CopyCurrent
  <2>1. CASE q = p
    BY <2>1, <1>5 DEF Saving, Verifying
  <2>2. CASE q # p
    BY <2>2, <1>1, <1>5 DEF CalmInv, CopyCurrent, Saving, Verifying, OneField
  <2>3. QED
    BY <2>1, <2>2
<1>10. MemFollowsFile'
  BY <1>1, <1>2, <1>5 DEF CalmInv, MemFollowsFile
<1>11. QED
  BY <1>4, <1>6, <1>7, <1>8, <1>9, <1>10 DEF CalmInv

(* What was read is still in the file when it is stored in memory. *)
LEMMA SetConfigCalm ==
    ASSUME CalmInv, NEW p \in Requests \cup {Reloader}, SetConfig(p)
    PROVE  CalmInv'
<1>1. p \in Procs /\ Requests \subseteq Procs
  BY DEF Procs
<1>2. up /\ pc[p] = "set" /\ loaded[p] = file.server
  BY <1>1 DEF SetConfig, At, CalmInv, LoadedCurrent
<1>3. mem = file.server
  <2>1. \A q \in Requests : pc[q] # "publish"
    BY <1>1, <1>2, OthersIdle DEF Procs
  <2>2. QED
    BY <2>1, <1>2 DEF CalmInv, MemFollowsFile
<1>4. /\ Finish(p) /\ up' = up /\ file' = file /\ mem' = mem
      /\ table' = table /\ tmp' = tmp
  BY <1>2, <1>3 DEF SetConfig
<1>5. QED
  BY <1>1, <1>2, <1>4, FinishCalm DEF CalmInv, TypeOK

(* A failed call leaves at most a damaged temporary file. *)
LEMMA FailIOCalm ==
    ASSUME CalmInv, NEW p \in Procs, FailIO(p)
    PROVE  CalmInv'
<1>1. CASE pc[p] = "write"
  <2>1. fd[p] = "tmp"
    BY <1>1 DEF CalmInv, Descriptors
  <2>2. tmp' \in {tmp, Garbled} /\ file' = file
    BY <2>1, <1>1 DEF FailIO, PutBytes
  <2>3. tmp' \in Content \cup {Absent}
    BY <2>2 DEF CalmInv, TypeOK, Content
  <2>4. QED
    BY <1>1, <2>2, <2>3, FinishCalm DEF FailIO
<1>2. CASE pc[p] # "write"
  BY <1>2, FinishCalm DEF FailIO, CalmInv, TypeOK
<1>3. QED
  BY <1>1, <1>2

(* A killed process leaves both files as they are. *)
LEMMA CrashCalm ==
    ASSUME CalmInv, Crash
    PROVE  CalmInv'
<1>1. /\ ~up' /\ file' = file /\ tmp' = tmp /\ mem' = mem /\ table' = table
      /\ \A p \in Procs : pc'[p] = "idle" /\ fd'[p] = "none"
  BY DEF Crash
<1>2. Requests \subseteq Procs /\ Registry \in Procs /\ Reloader \in Procs
  BY DEF Procs
<1>3. TypeOK' /\ FileWhole'
  BY DefaultServerType, EmptyDocType DEF Crash, CalmInv, TypeOK, FileWhole
<1>4. QED
  BY <1>1, <1>2, <1>3
     DEF CalmInv, DownIsIdle, OneAtATime, OwnSteps, Descriptors,
         PayloadCurrent, TmpCurrent, CopyCurrent, LoadedCurrent,
         MemFollowsFile, Saving, Verifying

(* A restart takes up what the file holds. *)
LEMMA RestartCalm ==
    ASSUME CalmInv, Restart
    PROVE  CalmInv'
<1>1. /\ ~up /\ up' /\ mem' = file.server /\ table' = file.hosts
      /\ file' = file /\ tmp' = tmp /\ pc' = pc /\ copy' = copy
      /\ payload' = payload /\ loaded' = loaded /\ fd' = fd
  BY WholeFile DEF Restart, CalmInv
<1>2. \A p \in Procs : pc'[p] = "idle"
  BY <1>1 DEF CalmInv, DownIsIdle
<1>3. Requests \subseteq Procs /\ Registry \in Procs /\ Reloader \in Procs
  BY DEF Procs
<1>4. TypeOK' /\ FileWhole'
  BY <1>1, WholeFile DEF CalmInv, TypeOK, FileWhole
<1>5. Descriptors'
  BY <1>1 DEF CalmInv, Descriptors
<1>6. QED
  BY <1>1, <1>2, <1>3, <1>4, <1>5
     DEF CalmInv, DownIsIdle, OneAtATime, OwnSteps,
         PayloadCurrent, TmpCurrent, CopyCurrent, LoadedCurrent,
         MemFollowsFile, Saving, Verifying

-----------------------------------------------------------------------------
(* Without overlap, every step preserves the invariant. *)
LEMMA NextKeepsCalm ==
    ASSUME ~MayOverlap
    PROVE  CalmInv /\ [Next]_vars => CalmInv'
<1> SUFFICES ASSUME CalmInv, [Next]_vars PROVE CalmInv'
  OBVIOUS
<1>1. CASE BeginSave \/ BeginReload \/ Crash \/ Restart
  BY <1>1, BeginSaveCalm, BeginReloadCalm, CrashCalm, RestartCalm
<1>2. ASSUME NEW p \in Requests, UpdateStep(p)
      PROVE  CalmInv'
  BY <1>2, BeginUpdateCalm, PublishCalm DEF UpdateStep
<1>3. ASSUME NEW p \in Requests \cup {Registry}, SaveStep(p)
      PROVE  CalmInv'
  BY <1>3, ReadFileCalm, OpenTmpCalm, WriteTmpCalm, RenameCalm DEF SaveStep
<1>4. ASSUME NEW p \in Requests \cup {Reloader}, ReloadStep(p)
      PROVE  CalmInv'
  BY <1>4, LoadFileCalm, SetConfigCalm DEF ReloadStep
<1>5. ASSUME NEW p \in Procs, FailIO(p)
      PROVE  CalmInv'
  BY <1>5, FailIOCalm
<1>6. CASE UNCHANGED vars
  BY <1>6 DEF vars, CalmInv, TypeOK, FileWhole, DownIsIdle, OneAtATime, OwnSteps,
     Descriptors, PayloadCurrent, TmpCurrent, CopyCurrent, LoadedCurrent,
     MemFollowsFile, Saving, Verifying, OneField
<1>7. QED
  BY <1>1, <1>2, <1>3, <1>4, <1>5, <1>6 DEF Next

(* Without overlap, the invariant holds in every reachable state, failed   *)
(* calls and crashes included.                                             *)
THEOREM CalmInvariance ==
    ASSUME ~MayOverlap
    PROVE  Spec => []CalmInv
<1>1. Init => CalmInv
  BY CalmInitial
<1>2. CalmInv /\ [Next]_vars => CalmInv'
  BY NextKeepsCalm
<1>3. QED
  BY <1>1, <1>2, PTL DEF Spec

(* Whatever fails and wherever the process is killed, config.yaml always   *)
(* holds one complete document, if savers do not overlap.                  *)
THEOREM FileIntegrity ==
    ASSUME ~MayOverlap
    PROVE  Spec => []FileWhole
<1>1. CalmInv => FileWhole
  BY DEF CalmInv
<1>2. QED
  BY <1>1, CalmInvariance, PTL

(* Only these steps move a process from where it is about to answer, and   *)
(* only this one moves the registry out of its rename with its document.   *)
LEMMA AnswerIsSetConfig ==
    ASSUME CalmInv, [Next]_vars, NEW p \in Requests, Answered(p)
    PROVE  SetConfig(p)
<1> USE DEF Answered
<1>1. /\ p \in Procs /\ p # Registry /\ p # Reloader
      /\ Registry \in Procs /\ Reloader \in Procs /\ Requests \subseteq Procs
      /\ pc \in [Procs -> {"idle", "read", "open", "write", "rename",
                           "publish", "load", "set"}]
  BY DEF CalmInv, TypeOK, Procs
<1>2. CASE BeginSave \/ BeginReload
  BY <1>1, <1>2 DEF BeginSave, BeginReload, Goto
<1>3. CASE Crash \/ Restart
  BY <1>3 DEF Crash, Restart
<1>4. ASSUME NEW q \in Requests, UpdateStep(q)
      PROVE  FALSE
  BY <1>1, <1>4 DEF UpdateStep, BeginSetupPassword, BeginChangePassword,
     BeginUpdateSettings, BeginUpdate, Publish, Goto
<1>5. ASSUME NEW q \in Requests \cup {Registry}, SaveStep(q)
      PROVE  FALSE
  BY <1>1, <1>5 DEF SaveStep, ReadFile, OpenTmp, WriteTmp, Rename, Goto, At
<1>6. ASSUME NEW q \in Requests \cup {Reloader}, ReloadStep(q)
      PROVE  SetConfig(p)
  <2>1. CASE q = p
    BY <1>1, <1>6, <2>1 DEF ReloadStep, LoadFile, Goto, At
  <2>2. CASE q # p
    BY <1>1, <1>6, <2>2 DEF ReloadStep, LoadFile, SetConfig, Finish, Goto
  <2>3. QED
    BY <2>1, <2>2
<1>7. ASSUME NEW q \in Procs, FailIO(q)
      PROVE  FALSE
  BY <1>1, <1>7 DEF FailIO, Finish
<1>8. CASE UNCHANGED vars
  BY <1>8 DEF vars
<1>9. QED
  BY <1>2, <1>3, <1>4, <1>5, <1>6, <1>7, <1>8 DEF Next

(* A request that answers 200 has its change on disk and in memory.        *)
THEOREM AnswersAreDurable ==
    ASSUME ~MayOverlap
    PROVE  Spec => AnsweredMeansPersisted
<1>1. ASSUME CalmInv, [Next]_vars, NEW p \in Requests, Answered(p)
      PROVE  file.server = copy[p] /\ mem' = copy[p]
  <2>1. SetConfig(p)
    BY <1>1, AnswerIsSetConfig
  <2>2. p \in Procs /\ pc[p] = "set" /\ mem' = loaded[p]
    BY <2>1 DEF SetConfig, At, Procs
  <2>3. QED
    BY <1>1, <2>2 DEF CalmInv, CopyCurrent, LoadedCurrent, Verifying
<1>2. CalmInv /\ [Next]_vars => [PersistedWhenAnswered]_vars
  BY <1>1 DEF PersistedWhenAnswered
<1>3. QED
  BY <1>2, CalmInvariance, PTL DEF Spec, AnsweredMeansPersisted

-----------------------------------------------------------------------------
(* Without overlap, a step is a step of DurableConfig or none: a rename    *)
(* saves one section, storing the configuration is Serve, a restart is     *)
(* Restart.                                                                *)
LEMMA CalmStepIsDurable ==
    ASSUME ~MayOverlap, CalmInv, [Next]_vars
    PROVE  Durable!Next \/ UNCHANGED <<file, mem, table>>
<1> USE DEF Durable!Next
<1>1. CASE BeginSave
  BY <1>1 DEF BeginSave, Durable!ChangeTable
<1>2. CASE BeginReload
  BY <1>2 DEF BeginReload
<1>3. ASSUME NEW p \in Requests, UpdateStep(p)
      PROVE  Durable!Serve \/ UNCHANGED <<file, mem, table>>
  <2>1. CASE Publish(p)
    BY <2>1 DEF Publish, At, CalmInv, CopyCurrent, Verifying, Durable!Serve
  <2>2. CASE ~Publish(p)
    BY <1>3, <2>2 DEF UpdateStep, BeginSetupPassword, BeginChangePassword,
       BeginUpdateSettings, BeginUpdate
  <2>3. QED
    BY <2>1, <2>2
<1>4. ASSUME NEW p \in Requests \cup {Registry}, SaveStep(p)
      PROVE  Durable!Next \/ UNCHANGED <<file, mem, table>>
  <2>1. CASE ReadFile(p) \/ OpenTmp(p)
    BY <2>1 DEF ReadFile, OpenTmp
  <2>2. CASE WriteTmp(p)
    <3>1. fd[p] = "tmp"
      BY <2>2 DEF WriteTmp, At, CalmInv, Descriptors, Procs
    <3>2. QED
      BY <2>2, <3>1 DEF WriteTmp, PutBytes
  <2>3. CASE Rename(p)
    <3>1. mem' = mem /\ table' = table
      BY <2>3 DEF Rename
    <3>2. CASE p = Registry
      BY <2>3, <3>1, <3>2, RenameReplacesOneSection DEF Durable!SaveTable
    <3>3. CASE p # Registry
      <4>1. /\ file' = [file EXCEPT !.server = copy[p]]
            /\ OneField(file.server, copy[p])
        BY <2>3, <3>3, RenameReplacesOneSection
      <4>2. Durable!SaveServer(copy[p])
        BY <3>1, <4>1 DEF Durable!SaveServer
      <4>3. CASE copy[p] = file.server
        <5>1. file' = file
          BY <4>1, <4>3 DEF CalmInv, FileWhole
        <5>2. QED
          BY <3>1, <5>1
      <4>4. ASSUME NEW pw \in Passwords, copy[p] = [file.server EXCEPT !.pw = pw]
            PROVE  Durable!SetupPassword \/ Durable!ChangePassword
        BY <4>2, <4>4 DEF Durable!SetupPassword, Durable!ChangePassword
      <4>5. ASSUME file.server.token = Unset, NEW k \in Tokens,
                   copy[p] = [file.server EXCEPT !.token = k]
            PROVE  Durable!SetToken
        BY <4>2, <4>5 DEF Durable!SetToken
      <4>6. QED
        BY <4>1, <4>3, <4>4, <4>5 DEF OneField
    <3>4. QED
      BY <3>2, <3>3
  <2>4. QED
    BY <1>4, <2>1, <2>2, <2>3 DEF SaveStep
<1>5. ASSUME NEW p \in Requests \cup {Reloader}, ReloadStep(p)
      PROVE  Durable!Serve \/ UNCHANGED <<file, mem, table>>
  BY <1>5 DEF ReloadStep, LoadFile, SetConfig, At, CalmInv, LoadedCurrent, Procs,
     Durable!Serve
<1>6. ASSUME NEW p \in Procs, FailIO(p)
      PROVE  UNCHANGED <<file, mem, table>>
  BY <1>6 DEF FailIO, PutBytes, CalmInv, Descriptors
<1>7. CASE Crash
  BY <1>7 DEF Crash
<1>8. CASE Restart
  BY <1>8, WholeFile DEF Restart, CalmInv, Durable!Restart
<1>9. CASE UNCHANGED vars
  BY <1>9 DEF vars
<1>10. QED
  BY <1>1, <1>2, <1>3, <1>4, <1>5, <1>6, <1>7, <1>8, <1>9 DEF Next

(* If savers and reloads do not overlap, config.yaml is the durable record *)
(* of DurableConfig: each save changes one field or one section and        *)
(* nothing else, and memory only ever takes up what is on disk.            *)
THEOREM CalmStoreImplementsDurable ==
    ASSUME ~MayOverlap
    PROVE  Spec => ImplementsDurable
<1>1. Init => Durable!Init
  BY DEF Init, Durable!Init, Durable!Server, Server
<1>2. CalmInv /\ [Next]_vars => [Durable!Next]_(Durable!vars)
  BY CalmStepIsDurable DEF Durable!vars
<1>3. QED
  BY <1>1, <1>2, CalmInvariance, PTL DEF Spec, ImplementsDurable, Durable!Spec

(* Saving the table leaves the settings on disk as they are, if no request *)
(* that changes them overlaps.                                             *)
THEOREM SavesKeepSettings ==
    ASSUME ~MayOverlap
    PROVE  Spec => RegistryPreservesSettings
<1>1. CalmInv => SaveKeepsServer
  BY DEF CalmInv, SaveKeepsServer, PayloadCurrent, FileWhole, Procs
<1>2. CalmInv /\ [Next]_vars => [SaveKeepsServer]_vars
  BY <1>1
<1>3. QED
  BY <1>2, CalmInvariance, PTL DEF Spec, RegistryPreservesSettings

-----------------------------------------------------------------------------
(* Bytes written through any descriptor leave contents. *)
LEMMA PutBytesType ==
    ASSUME TypeOK, NEW p \in Procs, NEW T, NEW F, PutBytes(p, T, F),
           T \subseteq Content \cup {Absent}, F \subseteq Content
    PROVE  file' \in Content /\ tmp' \in Content \cup {Absent}
BY DEF PutBytes, TypeOK

(* The steps of a saver preserve the types, whatever runs beside them. *)
LEMMA SaveStepType ==
    ASSUME TypeOK, NEW p \in Procs, SaveStep(p)
    PROVE  TypeOK'
<1>1. CASE ReadFile(p)
  <2>1. file \in Doc /\ copy[p] \in Server /\ table \in Tables
    BY <1>1 DEF ReadFile, TypeOK, Content
  <2>2. /\ [file EXCEPT !.hosts = table] \in Doc
        /\ [file EXCEPT !.server = copy[p]] \in Doc
    BY <2>1 DEF Doc
  <2>3. payload' \in [Procs -> Doc]
    BY <1>1, <2>2 DEF ReadFile, TypeOK
  <2>4. QED
    BY <1>1, <2>3 DEF ReadFile, Goto, TypeOK
<1>2. CASE OpenTmp(p)
  BY <1>2, EmptyDocType DEF OpenTmp, Goto, TypeOK, Content
<1>3. CASE WriteTmp(p)
  <2>1. Overwritten(file, payload[p]) \subseteq Content
        /\ Overwritten(tmp, payload[p]) \subseteq Content
    BY DEF Overwritten, TypeOK, Content
  <2>2. file' \in Content /\ tmp' \in Content \cup {Absent}
    BY <1>3, <2>1, PutBytesType DEF WriteTmp
  <2>3. QED
    BY <1>3, <2>2 DEF WriteTmp, Goto, TypeOK
<1>4. CASE Rename(p)
  <2>1. payload' \in [Procs -> Doc] /\ pc' \in [Procs ->
            {"idle", "read", "open", "write", "rename", "publish", "load", "set"}]
    BY <1>4, EmptyDocType DEF Rename, Goto, TypeOK
  <2>2. fd' \in [Procs -> {"none", "tmp", "file", "gone"}]
    BY <1>4 DEF Rename, TypeOK
  <2>3. file' \in Content /\ tmp' \in Content \cup {Absent}
    BY <1>4 DEF Rename, TypeOK
  <2>4. QED
    BY <1>4, <2>1, <2>2, <2>3 DEF Rename, TypeOK
<1>5. QED
  BY <1>1, <1>2, <1>3, <1>4 DEF SaveStep

(* Type correctness, for every interleaving of savers, reloads, failures   *)
(* and crashes: what is served from memory is always a configuration, even *)
(* when the file is damaged.                                               *)
THEOREM TypeCorrectness == Spec => []TypeOK
<1>1. Init => TypeOK
  BY CalmInitial DEF CalmInv
<1>2. TypeOK /\ [Next]_vars => TypeOK'
  <2> SUFFICES ASSUME TypeOK, [Next]_vars PROVE TypeOK'
    OBVIOUS
  <2>1. CASE BeginSave \/ BeginReload
    BY <2>1 DEF BeginSave, BeginReload, Goto, TypeOK
  <2>2. ASSUME NEW p \in Requests, UpdateStep(p)
        PROVE  TypeOK'
    <3>1. ASSUME NEW s \in Server, BeginUpdate(p, s)
          PROVE  TypeOK'
      BY <3>1 DEF BeginUpdate, Goto, TypeOK
    <3>2. CASE Publish(p)
      BY <3>2 DEF Publish, Goto, TypeOK, Procs
    <3>3. CASE ~Publish(p)
      <4>1. mem \in Server
        BY DEF TypeOK
      <4>2. \E s \in Server : BeginUpdate(p, s)
        BY <4>1, <2>2, <3>3 DEF UpdateStep, BeginSetupPassword,
           BeginChangePassword, BeginUpdateSettings, Server
      <4>3. QED
        BY <3>1, <4>2
    <3>4. QED
      BY <3>2, <3>3
  <2>3. ASSUME NEW p \in Requests \cup {Registry}, SaveStep(p)
        PROVE  TypeOK'
    BY <2>3, SaveStepType DEF Procs
  <2>4. ASSUME NEW p \in Requests \cup {Reloader}, ReloadStep(p)
        PROVE  TypeOK'
    <3>1. CASE LoadFile(p)
      <4>1. file \in Doc
        BY <3>1 DEF LoadFile, TypeOK, Content
      <4>2. ServerOf(file) \in Server
        BY <4>1, DefaultServerType DEF ServerOf, Doc
      <4>3. QED
        BY <3>1, <4>2 DEF LoadFile, Goto, TypeOK
    <3>2. CASE SetConfig(p)
      BY <3>2, DefaultServerType, EmptyDocType DEF SetConfig, Finish, TypeOK, Procs
    <3>3. QED
      BY <2>4, <3>1, <3>2 DEF ReloadStep
  <2>5. ASSUME NEW p \in Procs, FailIO(p)
        PROVE  TypeOK'
    <3>1. file' \in Content /\ tmp' \in Content \cup {Absent}
      <4>1. CASE pc[p] = "write"
        BY <2>5, <4>1, PutBytesType DEF FailIO, TypeOK, Content
      <4>2. CASE pc[p] # "write"
        BY <2>5, <4>2 DEF FailIO, TypeOK
      <4>3. QED
        BY <4>1, <4>2
    <3>2. QED
      BY <2>5, <3>1, DefaultServerType, EmptyDocType DEF FailIO, Finish, TypeOK
  <2>6. CASE Crash
    BY <2>6, DefaultServerType, EmptyDocType DEF Crash, TypeOK
  <2>7. CASE Restart
    <3>1. file \in Doc
      BY <2>7 DEF Restart, TypeOK, Content
    <3>2. ServerOf(file) \in Server /\ HostsOf(file) \in Tables
      BY <3>1, DefaultServerType DEF ServerOf, HostsOf, Doc
    <3>3. QED
      BY <2>7, <3>2 DEF Restart, TypeOK
  <2>8. CASE UNCHANGED vars
    BY <2>8 DEF vars, TypeOK
  <2>9. QED
    BY <2>1, <2>2, <2>3, <2>4, <2>5, <2>6, <2>7, <2>8 DEF Next
<1>3. QED
  BY <1>1, <1>2, PTL DEF Spec

-----------------------------------------------------------------------------
(* The periodic reload is never at a saver's step.                         *)
THEOREM ReloaderOnlyReads == Spec => []ReloaderReads
<1>1. Init => ReloaderReads
  BY DEF Init, ReloaderReads, Procs
<1>2. TypeOK /\ ReloaderReads /\ [Next]_vars => ReloaderReads'
  <2> SUFFICES ASSUME TypeOK, ReloaderReads, [Next]_vars PROVE ReloaderReads'
    OBVIOUS
  <2>1. Reloader \in Procs /\ Registry \in Procs /\ Requests \subseteq Procs
    BY DEF Procs
  <2>2. CASE BeginSave \/ BeginReload
    BY <2>1, <2>2 DEF BeginSave, BeginReload, Goto, TypeOK, ReloaderReads
  <2>3. ASSUME NEW p \in Requests, UpdateStep(p)
        PROVE  ReloaderReads'
    BY <2>1, <2>3
    DEF UpdateStep, BeginSetupPassword, BeginChangePassword,
        BeginUpdateSettings, BeginUpdate, Publish, Goto, TypeOK, ReloaderReads
  <2>4. ASSUME NEW p \in Requests \cup {Registry}, SaveStep(p)
        PROVE  ReloaderReads'
    BY <2>1, <2>4
    DEF SaveStep, ReadFile, OpenTmp, WriteTmp, Rename, Goto, TypeOK,
        ReloaderReads
  <2>5. ASSUME NEW p \in Requests \cup {Reloader}, ReloadStep(p)
        PROVE  ReloaderReads'
    BY <2>1, <2>5
    DEF ReloadStep, LoadFile, SetConfig, Finish, Goto, TypeOK, ReloaderReads
  <2>6. ASSUME NEW p \in Procs, FailIO(p)
        PROVE  ReloaderReads'
    BY <2>1, <2>6 DEF FailIO, Finish, TypeOK, ReloaderReads
  <2>7. CASE Crash \/ Restart \/ UNCHANGED vars
    BY <2>1, <2>7 DEF Crash, Restart, vars, ReloaderReads
  <2>8. QED
    BY <2>2, <2>3, <2>4, <2>5, <2>6, <2>7 DEF Next
<1>3. QED
  BY <1>1, <1>2, TypeCorrectness, PTL DEF Spec

(* In the quiet only the periodic reload does anything: it begins or gives *)
(* up, it reads, or it stores.                                             *)
LEMMA QuietSteps ==
    ASSUME TypeOK, ReloaderReads, [Next]_vars, Quiet, Quiet'
    PROVE  \/ UNCHANGED <<file, mem>> /\ pc'[Reloader] # "set"
                /\ pc[Reloader] # "set"
           \/ LoadFile(Reloader)
           \/ SetConfig(Reloader)
           \/ UNCHANGED vars
<1>1. /\ Reloader \in Procs /\ Registry \in Procs /\ Requests \subseteq Procs
      /\ Reloader \notin Requests \cup {Registry}
  BY DEF Procs
<1>2. /\ up /\ up'
      /\ \A p \in Procs \ {Reloader} : pc[p] = "idle" /\ pc'[p] = "idle"
  BY DEF Quiet
<1>3. ~BeginSave
  BY <1>1, <1>2 DEF BeginSave, Goto, TypeOK
<1>4. CASE BeginReload
  BY <1>1, <1>4 DEF BeginReload, Admitted, At, Goto, TypeOK
<1>5. ASSUME NEW p \in Requests, UpdateStep(p)
      PROVE  FALSE
  BY <1>1, <1>2, <1>5
  DEF UpdateStep, BeginSetupPassword, BeginChangePassword,
      BeginUpdateSettings, BeginUpdate, Publish, At, Goto, TypeOK
<1>6. ASSUME NEW p \in Requests \cup {Registry}, SaveStep(p)
      PROVE  FALSE
  BY <1>1, <1>2, <1>6 DEF SaveStep, ReadFile, OpenTmp, WriteTmp, Rename, At
<1>7. ASSUME NEW p \in Requests \cup {Reloader}, ReloadStep(p)
      PROVE  LoadFile(Reloader) \/ SetConfig(Reloader)
  <2>1. pc[p] # "idle"
    BY <1>7 DEF ReloadStep, LoadFile, SetConfig, At
  <2>2. p = Reloader
    BY <1>1, <1>2, <2>1
  <2>3. QED
    BY <1>7, <2>2 DEF ReloadStep
<1>8. ASSUME NEW p \in Procs, FailIO(p)
      PROVE  /\ UNCHANGED <<file, mem>>
             /\ pc'[Reloader] # "set" /\ pc[Reloader] # "set"
  <2>1. p = Reloader
    BY <1>2, <1>8 DEF FailIO
  <2>2. QED
    BY <1>1, <1>8, <2>1 DEF FailIO, Finish, TypeOK, ReloaderReads
<1>9. ~Crash /\ ~Restart
  BY <1>2 DEF Crash, Restart
<1>10. QED
  BY <1>3, <1>4, <1>5, <1>6, <1>7, <1>8, <1>9 DEF Next

(* Whatever savers, failures and crashes have left behind: once nobody     *)
(* writes, a reload that begins and ends makes memory agree with a         *)
(* readable file, and nothing parts the two again.  Of Converges only the  *)
(* fairness remains, which brings such a reload about.                     *)
THEOREM QuietDoesSettle == Spec => QuietSettles
<1>1. ASSUME TypeOK, ReloaderReads, [Next]_vars, Quiet, Quiet'
      PROVE  /\ file' = file
             /\ Fresh => Fresh'
             /\ Fresh /\ (Settled \/ Stores) => Settled'
  <2>1. Reloader \in Procs
    BY DEF Procs
  <2>2. CASE UNCHANGED <<file, mem>> /\ pc'[Reloader] # "set"
               /\ pc[Reloader] # "set"
    BY <2>2 DEF Fresh, Settled, Stores
  <2>3. CASE LoadFile(Reloader)
    BY <1>1, <2>1, <2>3 DEF LoadFile, At, Goto, TypeOK, Fresh, Settled, Stores
  <2>4. CASE SetConfig(Reloader)
    BY <1>1, <2>1, <2>4 DEF SetConfig, At, Finish, TypeOK, Fresh, Settled
  <2>5. CASE UNCHANGED vars
    BY <2>5 DEF vars, Fresh, Settled, Stores
  <2>6. QED
    BY <1>1, <2>2, <2>3, <2>4, <2>5, QuietSteps
<1>2. TypeOK /\ ReloaderReads /\ [Next]_vars =>
        [Quiet /\ Quiet' =>
            /\ file' = file
            /\ Fresh => Fresh'
            /\ Fresh /\ (Settled \/ Stores) => Settled' ]_vars
  BY <1>1
<1>3. QED
  BY <1>2, TypeCorrectness, ReloaderOnlyReads, PTL DEF Spec, QuietSettles
=============================================================================
