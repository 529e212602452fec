----------------------------- MODULE HostTable -----------------------------
(***************************************************************************)
(* What wollee promises about the table of hosts and about wake-up         *)
(* packets when each request is taken as one indivisible operation: the    *)
(* abstract specification that HostRegistry, where a request is a lookup,  *)
(* a decision and a write with other requests in between, is compared to.  *)
(*                                                                         *)
(* A host is known by its normalised MAC address.  Its record holds the    *)
(* name it is listed under, the time it was last seen and the flag an      *)
(* administrator sets in the UI; the IP address travels with the name.     *)
(***************************************************************************)
EXTENDS Naturals

CONSTANTS
    Macs,       \* normalised MAC addresses
    Names,      \* hostnames a request can carry
    NoHost,     \* "this address is not in the table"
    MaxTime     \* bound of the clock

Epoch == 0      \* time.Unix(0, 0), the LastSeen of a host added by hand

(* A request without a hostname lists the host under its MAC address. *)
HostNames == Names \cup Macs

HostRecord == [name : HostNames, seen : Nat, disabled : BOOLEAN]

ASSUME NoHostIsNoRecord == NoHost \notin HostRecord

VARIABLES
    hosts,      \* the table: Registry.hosts
    now,        \* the server's clock, counted from Epoch
    packet      \* the latest magic packet: who asked for it, which address

tableVars == <<hosts, now, packet>>

NoPacket == [via |-> "nobody"]
Packet   == [via : {"http", "telegram"}, mac : Macs]

Registered(m) == hosts[m] # NoHost

(* The flag a lookup of m reports; an unknown host counts as enabled. *)
FlagOf(m) == Registered(m) /\ hosts[m].disabled

TableTypeOK ==
    /\ hosts \in [Macs -> HostRecord \cup {NoHost}]
    /\ now \in Nat
    /\ packet \in Packet \cup {NoPacket}

TableInit ==
    /\ hosts = [m \in Macs |-> NoHost]
    /\ now = Epoch + 1
    /\ packet = NoPacket

Replace(m, r) ==
    /\ hosts' = [hosts EXCEPT ![m] = r]
    /\ UNCHANGED <<now, packet>>

(* A heartbeat brings the name and a time not older than the one on record *)
(* and keeps the administrator's flag.                                     *)
Heartbeat(m) ==
    \E n \in Names \cup {m}, t \in Epoch .. now :
        /\ Registered(m) => hosts[m].seen <= t
        /\ Replace(m, [name |-> n, seen |-> t, disabled |-> FlagOf(m)])

(* The add-host form starts the record afresh: never seen, enabled. *)
Add(m) ==
    \E n \in Names \cup {m} :
        Replace(m, [name |-> n, seen |-> Epoch, disabled |-> FALSE])

Delete(m) ==
    /\ Registered(m)
    /\ Replace(m, NoHost)

Disable(m) ==
    /\ Registered(m)
    /\ ~hosts[m].disabled
    /\ Replace(m, [hosts[m] EXCEPT !.disabled = TRUE])

Enable(m) ==
    /\ Registered(m)
    /\ hosts[m].disabled
    /\ Replace(m, [hosts[m] EXCEPT !.disabled = FALSE])

(* The web UI does not wake a disabled host; the telegram bot does. *)
Wake(m) ==
    /\ Registered(m)
    /\ \E via \in {"http", "telegram"} :
          /\ via = "http" => ~hosts[m].disabled
          /\ packet' = [via |-> via, mac |-> m]
    /\ UNCHANGED <<hosts, now>>

Tick ==
    /\ now < MaxTime
    /\ now' = now + 1
    /\ UNCHANGED <<hosts, packet>>

TableNext ==
    \/ \E m \in Macs :
          \/ Heartbeat(m)
          \/ Add(m)
          \/ Delete(m)
          \/ Disable(m)
          \/ Enable(m)
          \/ Wake(m)
    \/ Tick

TableSpec == TableInit /\ [][TableNext]_tableVars
=============================================================================
