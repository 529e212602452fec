--------------------------- MODULE DurableConfig ---------------------------
(***************************************************************************)
(* What wollee promises about config.yaml, taken as one durable record     *)
(* with two sections: the table of hosts and the server's settings.  A     *)
(* request changes one field of one section and nothing else; a process    *)
(* that dies and comes back takes up exactly what is on disk.              *)
(*                                                                         *)
(* Of the settings, two fields are told apart: the password, which is set  *)
(* up once and then only changed, and the telegram token, which the UI     *)
(* sets once.                                                              *)
(***************************************************************************)
CONSTANTS
    Tables,     \* values of the hosts section
    Passwords,
    Tokens,
    Unset       \* the empty password or token

Server == [pw : Passwords \cup {Unset}, token : Tokens \cup {Unset}]

VARIABLES
    disk,       \* config.yaml: [hosts, server]
    mem,        \* Manager.config
    table       \* Registry.hosts

vars == <<disk, mem, table>>

Init ==
    /\ disk \in [hosts : Tables, server : Server]
    /\ mem = disk.server
    /\ table = disk.hosts

(* The registry changes in memory first; saving it may fail. *)
ChangeTable ==
    /\ table' \in Tables
    /\ UNCHANGED <<disk, mem>>

SaveTable ==
    /\ disk' = [disk EXCEPT !.hosts = table]
    /\ UNCHANGED <<mem, table>>

SaveServer(s) ==
    /\ disk' = [disk EXCEPT !.server = s]
    /\ UNCHANGED <<mem, table>>

SetupPassword ==
    /\ disk.server.pw = Unset
    /\ \E pw \in Passwords : SaveServer([disk.server EXCEPT !.pw = pw])

ChangePassword ==
    /\ disk.server.pw # Unset
    /\ \E pw \in Passwords : SaveServer([disk.server EXCEPT !.pw = pw])

SetToken ==
    /\ disk.server.token = Unset
    /\ \E t \in Tokens : SaveServer([disk.server EXCEPT !.token = t])

(* Memory follows the disk. *)
Serve ==
    /\ mem' = disk.server
    /\ UNCHANGED <<disk, table>>

Restart ==
    /\ mem' = disk.server
    /\ table' = disk.hosts
    /\ UNCHANGED disk

Next ==
    \/ ChangeTable
    \/ SaveTable
    \/ SetupPassword
    \/ ChangePassword
    \/ SetToken
    \/ Serve
    \/ Restart

Spec == Init /\ [][Next]_vars
=============================================================================
