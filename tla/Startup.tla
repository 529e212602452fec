------------------------------- MODULE Startup -------------------------------
(***************************************************************************)
(* The host list from one life of the server to the next:                  *)
(* buildServerService and seedRegistry (cmd/server/main.go), Load and      *)
(* ValidateServer (internal/config/config.go), OpenRegistry                *)
(* (internal/server/registry.go), and the handlers that change the list,   *)
(* each a single step here: how they overlap is HostRegistry's subject.    *)
(*                                                                         *)
(* The same section of config.yaml is read twice at a start.  OpenRegistry *)
(* takes the MAC as it is spelled, in lower case, for the key; Validate-   *)
(* Server gives the configuration the normal spelling, and seedRegistry    *)
(* looks that up.  Everything the handlers look up or write is normal.     *)
(***************************************************************************)
EXTENDS WakeNetwork, FiniteSets

CONSTANTS
    MACs,
    Names,
    Blank,      \* the empty hostname
    Networks,   \* values of server.network
    Files,      \* host sections written by hand
    NoEntry,
    Nowhere

Spellings == {"normal", "capitals", "dashes"}
Entry == [mac : MACs, spelling : Spellings, name : Names \cup {Blank},
          disabled : BOOLEAN]

ASSUME NamesAreNotBlank == Blank \notin Names
ASSUME NoEntryIsNone == NoEntry \notin Entry
ASSUME FilesHoldEntries == Files \subseteq SUBSET Entry
ASSUME NetworksAreValid == \A n \in Networks : ValidateBroadcast(n)
ASSUME NowhereIsNoAddress == Nowhere \notin Address

(* strings.ToLower turns capitals into the normal spelling. *)
Keys == [mac : MACs, dashes : BOOLEAN]
Key(e) == [mac |-> e.mac, dashes |-> e.spelling = "dashes"]
Normal(m) == [mac |-> m, dashes |-> FALSE]
Dashed(m) == [mac |-> m, dashes |-> TRUE]

VARIABLES
    file,     \* the hosts in config.yaml
    network,  \* server.network
    phase,    \* of the server
    todo,     \* the hosts of the configuration that are still to be seeded
    table,    \* Registry.hosts
    saved,    \* the last save of the table has not failed
    sent      \* where the last magic packet went

vars == <<file, network, phase, todo, table, saved, sent>>

Host == [mac : MACs, name : Names \cup {Blank}]

TypeOK ==
    /\ file \in SUBSET Entry
    /\ network \in Networks
    /\ phase \in {"down", "seeding", "running"}
    /\ todo \in SUBSET Host
    /\ table \in [Keys -> Entry \cup {NoEntry}]
    /\ saved \in BOOLEAN
    /\ sent \in Address \cup {Nowhere}

Empty == [k \in Keys |-> NoEntry]

Records(t) == {t[k] : k \in Keys} \ {NoEntry}

Init ==
    /\ file \in Files
    /\ network \in Networks
    /\ phase = "down"
    /\ todo = {}
    /\ table = Empty
    /\ saved = TRUE
    /\ sent = Nowhere

-----------------------------------------------------------------------------
(* ValidateServer: no blank hostname; all three spellings are MACs. *)
Valid(f) == \A e \in f : e.name # Blank

Under(f, k) == {e \in f : Key(e) = k}

(* Of several entries with one key the last wins; files are sets here. *)
Opened(f) ==
    {t \in [Keys -> f \cup {NoEntry}] :
        \A k \in Keys : IF Under(f, k) = {} THEN t[k] = NoEntry
                        ELSE t[k] \in Under(f, k)}

(* Someone edits the hosts in config.yaml while the server is down.  (The  *)
(* server reads the list at its start only: an edit made while it runs is  *)
(* lost at its next save.)  Other spellings that lower case does not bring *)
(* to the normal one, with dots or blanks, do what the one with dashes     *)
(* does here.                                                              *)
EditFile ==
    /\ phase = "down"
    /\ file' \in Files
    /\ UNCHANGED <<network, phase, todo, table, saved, sent>>

(* Load and ValidateServer, which may refuse the file, then OpenRegistry. *)
Open ==
    /\ phase = "down"
    /\ Valid(file)
    /\ table' \in Opened(file)
    /\ todo' = {[mac |-> e.mac, name |-> e.name] : e \in file}
    /\ phase' = "seeding"
    /\ saved' = TRUE
    /\ UNCHANGED <<file, network, sent>>

(* Registry.Upsert and Delete: the table, then the file unless that fails. *)
Store(t) ==
    /\ table' = t
    /\ \/ file' = Records(t) /\ saved' = TRUE
       \/ file' = file /\ saved' = FALSE

(* Mutant: each host of the configuration is stored as it is there. *)
SeedsBlindly(h) ==
    [mac |-> h.mac, spelling |-> "normal", name |-> h.name,
     disabled |-> FALSE]

(* What seedRegistry stores for host h of the configuration. *)
Seeds(h) ==
    LET e == table[Normal(h.mac)] IN
    IF e = NoEntry
    THEN [mac |-> h.mac, spelling |-> "normal", name |-> h.name,
          disabled |-> FALSE]
    ELSE [e EXCEPT !.name = IF e.name = Blank THEN h.name ELSE e.name]

(* Mutant: a host that is there already is not stored again. *)
SeedMissing(h) ==
    LET e == Seeds(h) IN
    /\ phase = "seeding"
    /\ h \in todo
    /\ todo' = todo \ {h}
    /\ IF table[Normal(h.mac)] = NoEntry
       THEN Store([table EXCEPT ![Key(e)] = e]) /\ saved'
       ELSE UNCHANGED <<file, table, saved>>
    /\ UNCHANGED <<network, phase, sent>>

(* A save that fails ends the start; see Down. *)
Seed(h) ==
    LET e == Seeds(h) IN
    /\ phase = "seeding"
    /\ h \in todo
    /\ todo' = todo \ {h}
    /\ Store([table EXCEPT ![Key(e)] = e])
    /\ saved'
    /\ UNCHANGED <<network, phase, sent>>

Run ==
    /\ phase = "seeding"
    /\ todo = {}
    /\ phase' = "running"
    /\ UNCHANGED <<file, network, todo, table, saved, sent>>

(* The process ends: it is stopped, killed, or a save fails at the start. *)
Down ==
    /\ phase # "down"
    /\ phase' = "down"
    /\ todo' = {}
    /\ table' = Empty
    /\ saved' = TRUE
    /\ sent' = Nowhere
    /\ UNCHANGED <<file, network>>

-----------------------------------------------------------------------------
Found(m) == table[Normal(m)] # NoEntry

(* A handler stores a record under the key of its spelling. *)
Upsert(e) ==
    /\ Store([table EXCEPT ![Key(e)] = e])
    /\ UNCHANGED <<network, phase, todo, sent>>

(* handleRegister, which keeps the flag, and handleAddHost. *)
Register(m, n) ==
    /\ phase = "running"
    /\ Upsert([mac |-> m, spelling |-> "normal", name |-> n,
               disabled |-> Found(m) /\ table[Normal(m)].disabled])

AddHost(m, n) ==
    /\ phase = "running"
    /\ Upsert([mac |-> m, spelling |-> "normal", name |-> n,
               disabled |-> FALSE])

(* handleDisableHost, handleEnableHost *)
SetDisabled(m, d) ==
    /\ phase = "running"
    /\ Found(m)
    /\ Upsert([table[Normal(m)] EXCEPT !.disabled = d])

(* handleDeleteHost, given any spelling, deletes the normal key. *)
DeleteHost(m) ==
    /\ phase = "running"
    /\ Found(m)
    /\ Store([table EXCEPT ![Normal(m)] = NoEntry])
    /\ UNCHANGED <<network, phase, todo, sent>>

(* handleWake: by MAC the record under the normal key, by name any one.    *)
Wake(e) ==
    /\ phase = "running"
    /\ e \in Records(table)
    /\ ~e.disabled
    /\ sent' = CIDRToBroadcast(network)
    /\ UNCHANGED <<file, network, phase, todo, table, saved>>

Next ==
    \/ EditFile
    \/ Open
    \/ \E h \in todo : Seed(h)
    \/ Run
    \/ Down
    \/ \E m \in MACs :
          \/ \E n \in Names : Register(m, n) \/ AddHost(m, n)
          \/ \E d \in BOOLEAN : SetDisabled(m, d)
          \/ DeleteHost(m)
    \/ \E e \in Records(table) : Wake(e)

Spec == Init /\ [][Next]_vars

-----------------------------------------------------------------------------
(* Each host once, in a spelling whose key is the normal one. *)
Tidy(f) ==
    /\ \A e \in f : e.spelling # "dashes"
    /\ \A d, e \in f : d.mac = e.mac => d = e

(* What the handlers would make of the hosts: absent, enabled or disabled. *)
FlagIn(es) ==
    [m \in MACs |->
        IF Under(es, Normal(m)) = {} THEN "absent"
        ELSE IF \E e \in Under(es, Normal(m)) : e.disabled THEN "disabled"
        ELSE "enabled"]

View == FlagIn(IF phase = "down" THEN file ELSE Records(table))

(* Going down, at any step and however often, and coming up again leaves   *)
(* every host as the handlers last saved it: nothing deleted comes back,   *)
(* nothing disabled is enabled, no host is forgotten.  The seeding, which  *)
(* meets a list that the registry has read already, must find every host   *)
(* in it (main.go:133-153).                                                *)
StartupChangesNothing ==
    [][ /\ Tidy(file) /\ saved
        /\ phase' # phase \/ todo' # todo
        => View' = View ]_vars

(* While the server runs and its saves succeed, the file holds exactly the *)
(* table, so with no host under one key twice, and the next start will not *)
(* refuse it: a start leaves nothing as it was written by hand, since it   *)
(* stores every host, those it finds included.                             *)
FileIsTable ==
    phase = "running" /\ saved => file = Records(table) /\ Valid(file)

(* The table holds each host under the key of its spelling, and by name.   *)
Keyed ==
    \A k \in Keys : table[k] # NoEntry =>
        Key(table[k]) = k /\ table[k].name # Blank

(* Before the first host is seeded the table is what was read of the file, *)
(* from then on the file is what is saved of the table, and every host     *)
(* still to be seeded is in the table, if perhaps under its other key.     *)
SeedsAreKnown ==
    phase = "seeding" =>
        /\ saved
        /\ \/ file = Records(table)
           \/ todo # {} /\ table \in Opened(file)
        /\ \A h \in todo :
              /\ h.name # Blank
              /\ \E k \in Keys : k.mac = h.mac /\ table[k] # NoEntry

(* Nothing but an edit by hand makes a tidy list untidy: what is seeded,   *)
(* and what the handlers save, is under normal keys, a list that a failing *)
(* save or a kill left behind included.  So the condition of               *)
(* StartupChangesNothing is one on what people write.                      *)
TidyStays == [][Tidy(file) /\ ~EditFile => Tidy(file')]_vars

(* Beside a tidy file no host is under a key with dashes, not even while   *)
(* the table has changes that could not be saved.                          *)
TidyTable ==
    phase # "down" /\ Tidy(file) => \A m \in MACs : table[Dashed(m)] = NoEntry

PacketsGoThere == sent # Nowhere => sent = CIDRToBroadcast(network)

(* What the properties here rest on, by induction. *)
IInv == TypeOK /\ FileIsTable /\ Keyed /\ SeedsAreKnown /\ PacketsGoThere

(* A packet goes to the broadcast address of the network set, which is one *)
(* of the network's addresses and has every bit that another one has, for  *)
(* all lengths of the prefix, 0 and the full length included; a plain      *)
(* address is used as it is.  (An IPv6 network passes the validation too,  *)
(* and no packet for it goes anywhere in it.)                              *)
WakeReachesAll ==
    sent # Nowhere /\ network \in Plain \cup Cidr =>
        IsBroadcastOf(sent, network)
=============================================================================
