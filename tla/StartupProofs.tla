---------------------------- MODULE StartupProofs ----------------------------
(***************************************************************************)
(* Proofs about WakeNetwork and Startup: where a packet goes, for any      *)
(* length of addresses and prefixes, and what becomes of the host list,    *)
(* for any hosts, names and files written by hand.                         *)
(***************************************************************************)
EXTENDS Startup, TLAPS

USE WidthIsPositive, NamesAreNotBlank, NoEntryIsNone, FilesHoldEntries,
    NetworksAreValid, NowhereIsNoAddress

-----------------------------------------------------------------------------
(* Whatever the network, the address has the length of an IPv4 one. *)
LEMMA BroadcastIsAddress ==
    ASSUME NEW n, ValidateBroadcast(n)
    PROVE  CIDRToBroadcast(n) \in Address
<1>1. CASE n \in Plain
  BY <1>1 DEF Plain, CIDRToBroadcast
<1>2. CASE n \in Cidr \cup Cidr6
  <2>1. n.kind = "cidr"
    BY <1>2 DEF Cidr, Cidr6
  <2>2. QED
    BY <2>1 DEF CIDRToBroadcast, Address, Bit
<1>3. QED
  BY <1>1, <1>2 DEF ValidateBroadcast

(* In an IPv4 network, the bits of the prefix are kept, the others set. *)
LEMMA BroadcastBits ==
    ASSUME NEW n \in Cidr, NEW i \in 1 .. Width
    PROVE  CIDRToBroadcast(n)[i] = IF i <= n.prefix THEN n.addr[i] ELSE 1
<1>1. /\ n.kind = "cidr" /\ n.prefix \in 0 .. Width
      /\ DOMAIN n.addr = 1 .. Width /\ n.addr[i] \in {0, 1}
  BY DEF Cidr, Address, Bit
<1>2. Mask(n)[i] = IF i <= n.prefix THEN 1 ELSE 0
  BY <1>1 DEF Mask
<1>3. NetworkIP(n)[i] = IF i <= n.prefix THEN n.addr[i] ELSE 0
  BY <1>1, <1>2 DEF NetworkIP
<1>4. CIDRToBroadcast(n)[i] =
        IF NetworkIP(n)[i] = 1 \/ Mask(n)[i] = 0 THEN 1 ELSE 0
  BY <1>1 DEF CIDRToBroadcast
<1>5. QED
  BY <1>1, <1>2, <1>3, <1>4

(* CIDRToBroadcast computes the broadcast address of every IPv4 network,   *)
(* whatever the length of its prefix (internal/wol/wol.go).                *)
THEOREM BroadcastReaches ==
    ASSUME NEW n \in Plain \cup Cidr
    PROVE  IsBroadcastOf(CIDRToBroadcast(n), n)
<1> DEFINE b == CIDRToBroadcast(n)
<1>1. CASE n \in Plain
  <2>1. b = n.addr /\ Members(n) = {n.addr} /\ n.addr \in Address
    BY <1>1 DEF Plain, CIDRToBroadcast, Members
  <2>2. \A i \in 1 .. Width : n.addr[i] <= n.addr[i]
    BY <2>1 DEF Address, Bit
  <2>3. QED
    BY <2>1, <2>2 DEF IsBroadcastOf
<1>2. CASE n \in Cidr
  <2>1. n.kind = "cidr" /\ n.prefix \in 0 .. Width
    BY <1>2 DEF Cidr
  <2>2. Members(n) = {a \in Address : \A i \in 1 .. n.prefix : a[i] = n.addr[i]}
    BY <2>1 DEF Members
  <2>3. b \in Address
    BY <1>2, BroadcastIsAddress DEF ValidateBroadcast
  <2>4. \A i \in 1 .. Width : b[i] = IF i <= n.prefix THEN n.addr[i] ELSE 1
    BY <1>2, BroadcastBits
  <2>5. b \in Members(n)
    BY <2>1, <2>2, <2>3, <2>4
  <2>6. ASSUME NEW a \in Members(n), NEW i \in 1 .. Width
        PROVE  a[i] <= b[i]
    <3>1. a \in Address /\ a[i] \in {0, 1}
      BY <2>2 DEF Address, Bit
    <3>2. CASE i <= n.prefix
      BY <2>1, <2>2, <2>4, <3>1, <3>2
    <3>3. CASE ~(i <= n.prefix)
      BY <2>4, <3>1, <3>3
    <3>4. QED
      BY <3>2, <3>3
  <2>7. QED
    BY <2>5, <2>6 DEF IsBroadcastOf
<1>3. QED
  BY <1>1, <1>2

-----------------------------------------------------------------------------
(* What is read of a file holds each of its hosts under some key, and      *)
(* nothing else.                                                           *)
LEMMA OpenedHolds ==
    ASSUME NEW f \in SUBSET Entry, NEW t \in Opened(f)
    PROVE  /\ t \in [Keys -> f \cup {NoEntry}]
           /\ \A k \in Keys : t[k] # NoEntry => t[k] \in f /\ Key(t[k]) = k
           /\ \A e \in f : Key(e) \in Keys /\ t[Key(e)] # NoEntry
<1>1. \A k \in Keys : t[k] # NoEntry => t[k] \in f /\ Key(t[k]) = k
  BY DEF Opened, Under
<1>2. ASSUME NEW e \in f
      PROVE  Key(e) \in Keys /\ t[Key(e)] # NoEntry
  <2>1. Key(e) \in Keys
    BY DEF Key, Keys, Entry
  <2>2. t[Key(e)] \in Under(f, Key(e))
    BY <2>1 DEF Opened, Under
  <2>3. QED
    BY <2>1, <2>2 DEF Under
<1>3. QED
  BY <1>1, <1>2 DEF Opened

(* A tidy file is read as it is. *)
LEMMA TidyIsRead ==
    ASSUME NEW f \in SUBSET Entry, NEW t \in Opened(f), Tidy(f)
    PROVE  Records(t) = f
<1>1. Records(t) \subseteq f
  BY OpenedHolds DEF Records
<1>2. ASSUME NEW e \in f
      PROVE  e \in Records(t)
  <2>1. Key(e) \in Keys /\ t[Key(e)] # NoEntry
    BY OpenedHolds
  <2>2. t[Key(e)] \in f /\ Key(t[Key(e)]) = Key(e)
    BY <2>1, OpenedHolds
  <2>3. t[Key(e)].mac = e.mac
    BY <2>2 DEF Key
  <2>4. t[Key(e)] = e
    BY <2>2, <2>3 DEF Tidy
  <2>5. QED
    BY <2>1, <2>4 DEF Records
<1>3. QED
  BY <1>1, <1>2

-----------------------------------------------------------------------------
Tables == [Keys -> Entry \cup {NoEntry}]

(* A table every record of which is under its own key and has a name. *)
Fits(t) ==
    \A k \in Keys : t[k] # NoEntry => Key(t[k]) = k /\ t[k].name # Blank

(* Its records make a file that the next start accepts. *)
LEMMA RecordsAreValid ==
    ASSUME NEW t \in Tables, Fits(t)
    PROVE  Records(t) \in SUBSET Entry /\ Valid(Records(t))
BY DEF Tables, Fits, Records, Valid

(* It stays one when a record is put under its key, or one is deleted. *)
LEMMA FitsWith ==
    ASSUME NEW t \in Tables, Fits(t),
           NEW e \in Entry, e.name # Blank
    PROVE  /\ Key(e) \in Keys
           /\ [t EXCEPT ![Key(e)] = e] \in Tables
           /\ Fits([t EXCEPT ![Key(e)] = e])
<1>1. Key(e) \in Keys
  BY DEF Key, Keys, Entry
<1> DEFINE u == [t EXCEPT ![Key(e)] = e]
<1>2. u \in Tables
  BY <1>1 DEF Tables
<1>3. \A k \in Keys : u[k] = IF k = Key(e) THEN e ELSE t[k]
  BY <1>1 DEF Tables
<1>4. Fits(u)
  BY <1>3 DEF Fits
<1>5. QED
  BY <1>1, <1>2, <1>4

(* The same of a deletion. *)
LEMMA FitsWithout ==
    ASSUME NEW t \in Tables, Fits(t), NEW c \in Keys
    PROVE  /\ [t EXCEPT ![c] = NoEntry] \in Tables
           /\ Fits([t EXCEPT ![c] = NoEntry])
BY DEF Tables, Fits

(* A handler that stores a table that fits keeps the invariant. *)
LEMMA StoreKeeps ==
    ASSUME IInv, phase = "running", NEW t \in Tables, Fits(t), Store(t),
           UNCHANGED <<network, phase, todo, sent>>
    PROVE  IInv'
<1>1. Records(t) \in SUBSET Entry /\ Valid(Records(t))
  BY RecordsAreValid
<1>2. table' = t
  BY DEF Store
<1>3. \/ file' = Records(t) /\ saved' = TRUE
      \/ file' = file /\ saved' = FALSE
  BY DEF Store
<1>4. TypeOK'
  BY <1>1, <1>2, <1>3 DEF IInv, TypeOK, Tables
<1>5. FileIsTable'
  BY <1>1, <1>2, <1>3 DEF FileIsTable
<1>6. Keyed'
  BY <1>2 DEF Keyed, Fits
<1>7. SeedsAreKnown' /\ PacketsGoThere'
  BY DEF IInv, SeedsAreKnown, PacketsGoThere
<1>8. QED
  BY <1>4, <1>5, <1>6, <1>7 DEF IInv

(* What seedRegistry stores for a host that it has under its normal key is *)
(* the record that is there.                                               *)
LEMMA SeedsFit ==
    ASSUME IInv, NEW h \in Host, h.name # Blank
    PROVE  /\ Seeds(h) \in Entry /\ Seeds(h).name # Blank
           /\ Key(Seeds(h)) = Normal(h.mac)
           /\ table[Normal(h.mac)] # NoEntry =>
                 Seeds(h) = table[Normal(h.mac)]
<1>1. Normal(h.mac) \in Keys /\ h.mac \in MACs /\ h.name \in Names \cup {Blank}
  BY DEF Normal, Keys, Host
<1>2. CASE table[Normal(h.mac)] = NoEntry
  <2>1. Seeds(h) = [mac |-> h.mac, spelling |-> "normal", name |-> h.name,
                    disabled |-> FALSE]
    BY <1>2 DEF Seeds
  <2>2. /\ Seeds(h).mac = h.mac /\ Seeds(h).spelling = "normal"
        /\ Seeds(h).name = h.name
    BY <2>1
  <2>3. Key(Seeds(h)) = Normal(h.mac)
    BY <2>2 DEF Key, Normal
  <2>4. Seeds(h) \in Entry
    BY <1>1, <2>1 DEF Entry, Spellings
  <2>5. QED
    BY <1>2, <2>2, <2>3, <2>4
<1>3. CASE table[Normal(h.mac)] # NoEntry
  <2> DEFINE e == table[Normal(h.mac)]
  <2>1. e \in Entry /\ Key(e) = Normal(h.mac) /\ e.name # Blank
    BY <1>1, <1>3 DEF IInv, TypeOK, Keyed
  <2>2. Seeds(h) = [e EXCEPT !.name = e.name]
    BY <1>3, <2>1 DEF Seeds
  <2>3. [e EXCEPT !.name = e.name] = e
    BY <2>1 DEF Entry
  <2>4. QED
    BY <2>1, <2>2, <2>3
<1>4. QED
  BY <1>2, <1>3

-----------------------------------------------------------------------------
(* The invariant holds before the first start. *)
LEMMA InitHolds == Init => IInv
<1>1. SUFFICES ASSUME Init
               PROVE  IInv
  OBVIOUS
<1>2. TypeOK
  BY <1>1 DEF Init, TypeOK, Empty
<1>3. FileIsTable /\ Keyed /\ SeedsAreKnown /\ PacketsGoThere
  BY <1>1
  DEF Init, FileIsTable, Keyed, Empty, SeedsAreKnown, PacketsGoThere
<1>4. QED
  BY <1>2, <1>3 DEF IInv

(* Reading a file that is accepted establishes it for the seeding. *)
LEMMA OpenKeeps ==
    ASSUME IInv, Open
    PROVE  IInv'
<1>1. /\ file \in SUBSET Entry /\ Valid(file) /\ file' = file
      /\ table' \in Opened(file) /\ phase' = "seeding" /\ saved' = TRUE
      /\ todo' = {[mac |-> e.mac, name |-> e.name] : e \in file}
  BY DEF IInv, TypeOK, Open
<1>2. /\ table' \in [Keys -> file \cup {NoEntry}]
      /\ \A k \in Keys : table'[k] # NoEntry =>
            table'[k] \in file /\ Key(table'[k]) = k
      /\ \A e \in file : Key(e) \in Keys /\ table'[Key(e)] # NoEntry
  BY <1>1, OpenedHolds
<1>3. todo' \in SUBSET Host
  BY <1>1 DEF Host, Entry
<1>4. TypeOK'
  BY <1>1, <1>2, <1>3 DEF IInv, TypeOK, Open
<1>5. Keyed'
  BY <1>1, <1>2 DEF Keyed, Valid
<1>6. file' = Records(table') \/ (todo' # {} /\ table' \in Opened(file'))
  <2>1. CASE file = {}
    BY <1>1, <1>2, <2>1 DEF Records
  <2>2. CASE file # {}
    <3>1. PICK e \in file : TRUE
      BY <2>2
    <3>2. [mac |-> e.mac, name |-> e.name] \in todo'
      BY <1>1
    <3>3. todo' # {}
      BY <3>2
    <3>4. QED
      BY <1>1, <3>3
  <2>3. QED
    BY <2>1, <2>2
<1>7. ASSUME NEW h \in todo'
      PROVE  /\ h.name # Blank
             /\ \E k \in Keys : k.mac = h.mac /\ table'[k] # NoEntry
  <2>1. PICK e \in file : h = [mac |-> e.mac, name |-> e.name]
    BY <1>1
  <2>2. Key(e).mac = h.mac /\ h.name = e.name
    BY <2>1 DEF Key
  <2>3. QED
    BY <1>1, <1>2, <2>1, <2>2 DEF Valid
<1>8. SeedsAreKnown'
  BY <1>1, <1>6, <1>7 DEF SeedsAreKnown
<1>9. FileIsTable' /\ PacketsGoThere'
  BY <1>1 DEF IInv, Open, FileIsTable, PacketsGoThere
<1>10. QED
  BY <1>4, <1>5, <1>8, <1>9 DEF IInv

(* Each host seeded leaves the file as what the table holds. *)
LEMMA SeedKeeps ==
    ASSUME IInv, NEW h \in todo, Seed(h)
    PROVE  IInv'
<1> DEFINE e == Seeds(h)
           t == [table EXCEPT ![Key(e)] = e]
<1>1. /\ phase = "seeding" /\ todo' = todo \ {h}
      /\ table' = t /\ file' = Records(t) /\ saved' = TRUE
      /\ UNCHANGED <<network, phase, sent>>
  BY DEF Seed, Store
<1>2. /\ h \in Host /\ h.name # Blank
      /\ table \in Tables /\ Fits(table)
  BY <1>1 DEF IInv, TypeOK, SeedsAreKnown, Keyed, Tables, Fits
<1>3. e \in Entry /\ e.name # Blank
  BY <1>2, SeedsFit
<1>4. Key(e) \in Keys /\ t \in Tables /\ Fits(t)
  BY <1>2, <1>3, FitsWith
<1>5. Records(t) \in SUBSET Entry
  BY <1>4, RecordsAreValid
<1>6. TypeOK'
  BY <1>1, <1>4, <1>5 DEF IInv, TypeOK, Tables
<1>7. \A k \in Keys : table[k] # NoEntry => t[k] # NoEntry
  BY <1>2, <1>3, <1>4 DEF Tables
<1>8. SeedsAreKnown'
  BY <1>1, <1>7 DEF IInv, SeedsAreKnown
<1>9. Keyed' /\ FileIsTable' /\ PacketsGoThere'
  BY <1>1, <1>4
  DEF IInv, Keyed, Fits, FileIsTable, PacketsGoThere
<1>10. QED
  BY <1>6, <1>8, <1>9 DEF IInv

(* Every handler's record is named and under its key. *)
LEMMA HandlersKeep ==
    ASSUME IInv, NEW m \in MACs,
           \/ \E n \in Names : Register(m, n) \/ AddHost(m, n)
           \/ \E d \in BOOLEAN : SetDisabled(m, d)
           \/ DeleteHost(m)
    PROVE  IInv'
<1>1. table \in Tables /\ Fits(table) /\ Normal(m) \in Keys
  BY DEF IInv, TypeOK, Keyed, Tables, Fits, Normal, Keys
<1>2. ASSUME NEW e \in Entry, e.name # Blank, phase = "running", Upsert(e)
      PROVE  IInv'
  BY <1>1, <1>2, FitsWith, StoreKeeps DEF Upsert
<1>3. CASE \E n \in Names : Register(m, n)
  <2>1. PICK n \in Names : Register(m, n)
    BY <1>3
  <2> DEFINE e == [mac |-> m, spelling |-> "normal", name |-> n,
                   disabled |-> Found(m) /\ table[Normal(m)].disabled]
  <2>2. Found(m) => table[Normal(m)].disabled \in BOOLEAN
    BY <1>1 DEF Found, Tables, Entry
  <2>3. (Found(m) /\ table[Normal(m)].disabled) \in BOOLEAN
    BY <2>2
  <2>4. e \in Entry /\ e.name # Blank
    BY <2>3 DEF Entry, Spellings
  <2>5. QED
    BY <1>2, <2>1, <2>4 DEF Register
<1>4. CASE \E n \in Names : AddHost(m, n)
  BY <1>2, <1>4 DEF AddHost, Entry, Spellings
<1>5. CASE \E d \in BOOLEAN : SetDisabled(m, d)
  <2>1. PICK d \in BOOLEAN : SetDisabled(m, d)
    BY <1>5
  <2> DEFINE e == [table[Normal(m)] EXCEPT !.disabled = d]
  <2>2. table[Normal(m)] \in Entry /\ table[Normal(m)].name # Blank
    BY <1>1, <2>1 DEF SetDisabled, Found, Tables, Fits
  <2>3. e \in Entry /\ e.name # Blank
    BY <2>2 DEF Entry
  <2>4. QED
    BY <1>2, <2>1, <2>3 DEF SetDisabled
<1>6. CASE DeleteHost(m)
  BY <1>1, <1>6, FitsWithout, StoreKeeps DEF DeleteHost
<1>7. QED
  BY <1>3, <1>4, <1>5, <1>6

(* The invariant of every run of the server, over any number of starts. *)
THEOREM InvariantHolds == Spec => []IInv
<1>1. ASSUME IInv, [Next]_vars
      PROVE  IInv'
  <2>1. CASE EditFile
    BY <1>1, <2>1
    DEF IInv, EditFile, TypeOK, FileIsTable, Keyed, SeedsAreKnown,
        PacketsGoThere
  <2>2. CASE Open
    BY <1>1, <2>2, OpenKeeps
  <2>3. CASE \E h \in todo : Seed(h)
    BY <1>1, <2>3, SeedKeeps
  <2>4. CASE Run
    <3>1. /\ phase = "seeding" /\ todo = {} /\ phase' = "running"
          /\ UNCHANGED <<file, network, todo, table, saved, sent>>
      BY <2>4 DEF Run
    <3>2. file = Records(table)
      BY <1>1, <3>1 DEF IInv, SeedsAreKnown
    <3>3. Valid(Records(table))
      BY <1>1, RecordsAreValid DEF IInv, TypeOK, Keyed, Tables, Fits
    <3>4. FileIsTable'
      BY <3>1, <3>2, <3>3 DEF FileIsTable
    <3>5. QED
      BY <1>1, <3>1, <3>4
      DEF IInv, TypeOK, Keyed, SeedsAreKnown, PacketsGoThere
  <2>5. CASE Down
    BY <1>1, <2>5
    DEF IInv, Down, TypeOK, FileIsTable, Keyed, Empty, SeedsAreKnown,
        PacketsGoThere
  <2>6. CASE \E m \in MACs :
               \/ \E n \in Names : Register(m, n) \/ AddHost(m, n)
               \/ \E d \in BOOLEAN : SetDisabled(m, d)
               \/ DeleteHost(m)
    BY <1>1, <2>6, HandlersKeep
  <2>7. CASE \E e \in Records(table) : Wake(e)
    <3>1. /\ sent' = CIDRToBroadcast(network)
          /\ UNCHANGED <<file, network, phase, todo, table, saved>>
      BY <2>7 DEF Wake
    <3>2. sent' \in Address
      BY <1>1, <3>1, BroadcastIsAddress DEF IInv, TypeOK
    <3>3. TypeOK' /\ PacketsGoThere'
      BY <1>1, <3>1, <3>2 DEF IInv, TypeOK, PacketsGoThere
    <3>4. FileIsTable' /\ Keyed' /\ SeedsAreKnown'
      BY <1>1, <3>1 DEF IInv, FileIsTable, Keyed, SeedsAreKnown
    <3>5. QED
      BY <3>3, <3>4 DEF IInv
  <2>8. CASE UNCHANGED vars
    BY <1>1, <2>8
    DEF vars, IInv, TypeOK, FileIsTable, Keyed, SeedsAreKnown, PacketsGoThere
  <2>9. QED
    BY <1>1, <2>1, <2>2, <2>3, <2>4, <2>5, <2>6, <2>7, <2>8 DEF Next
<1>2. QED
  BY <1>1, InitHolds, PTL DEF Spec

(* While the server runs the file is the table (registry.go:60-66).        *)
THEOREM RunningFileIsTable == Spec => []FileIsTable
<1>1. IInv => FileIsTable
  BY DEF IInv
<1>2. QED
  BY <1>1, InvariantHolds, PTL

(* Packets go to the broadcast address of the network, whatever its prefix *)
(* (internal/wol/wol.go:28-72).                                            *)
THEOREM WakesReachAll == Spec => []WakeReachesAll
<1>1. IInv => WakeReachesAll
  BY BroadcastReaches DEF IInv, PacketsGoThere, WakeReachesAll
<1>2. QED
  BY <1>1, InvariantHolds, PTL

-----------------------------------------------------------------------------
(* While a tidy file is seeded, the table is the file. *)
LEMMA SeedingShowsFile ==
    ASSUME IInv, phase = "seeding", Tidy(file)
    PROVE  Records(table) = file
<1>1. file \in SUBSET Entry
  BY DEF IInv, TypeOK
<1>2. file = Records(table) \/ table \in Opened(file)
  BY DEF IInv, SeedsAreKnown
<1>3. QED
  BY <1>1, <1>2, TidyIsRead

(* So every host that is still to be seeded is found, and is stored as it  *)
(* is there.                                                               *)
LEMMA SeedingFindsHosts ==
    ASSUME IInv, phase = "seeding", Tidy(file), NEW h \in todo
    PROVE  [table EXCEPT ![Key(Seeds(h))] = Seeds(h)] = table
<1>1. h \in Host /\ h.name # Blank
  BY DEF IInv, TypeOK, SeedsAreKnown
<1>2. PICK k \in Keys : k.mac = h.mac /\ table[k] # NoEntry
  BY DEF IInv, SeedsAreKnown
<1>3. table[k] \in file /\ Key(table[k]) = k
  BY <1>2, SeedingShowsFile DEF IInv, Keyed, Records
<1>4. k = Normal(h.mac)
  <2>1. (table[k].spelling = "dashes") = FALSE
    BY <1>3 DEF Tidy
  <2>2. Key(table[k]) = [mac |-> table[k].mac, dashes |-> FALSE]
    BY <2>1, Zenon DEF Key
  <2>3. k = [mac |-> table[k].mac, dashes |-> FALSE]
    BY <1>3, <2>2, Zenon
  <2>4. k.mac = table[k].mac
    BY <2>3
  <2>5. QED
    BY <1>2, <2>3, <2>4, Zenon DEF Normal
<1>5. Seeds(h) = table[k] /\ Key(Seeds(h)) = k
  BY <1>1, <1>2, <1>4, SeedsFit
<1>6. QED
  BY <1>2, <1>5 DEF IInv, TypeOK

(* No start and no end of the server, wherever it happens, changes what    *)
(* the handlers make of the hosts (main.go:133-153).                       *)
THEOREM StartsChangeNothing == Spec => StartupChangesNothing
<1>1. ASSUME IInv, [Next]_vars, Tidy(file), saved,
             phase' # phase \/ todo' # todo
      PROVE  View' = View
  <2>1. \/ Open \/ Run \/ Down
        \/ \E h \in todo : Seed(h)
    BY <1>1
    DEF Next, vars, EditFile, Register, AddHost, SetDisabled, DeleteHost,
        Upsert, Wake
  <2>2. CASE Open
    <3>1. /\ phase = "down" /\ phase' = "seeding"
          /\ table' \in Opened(file) /\ file \in SUBSET Entry
      BY <1>1, <2>2 DEF IInv, TypeOK, Open
    <3>2. Records(table') = file
      BY <1>1, <3>1, TidyIsRead
    <3>3. QED
      BY <3>1, <3>2 DEF View
  <2>3. CASE Run
    BY <2>3 DEF Run, View
  <2>4. CASE Down
    <3>1. /\ phase \in {"seeding", "running"} /\ phase' = "down"
          /\ file' = file
      BY <1>1, <2>4 DEF IInv, TypeOK, Down
    <3>2. Records(table) = file
      BY <1>1, <3>1, SeedingShowsFile DEF IInv, FileIsTable
    <3>3. QED
      BY <3>1, <3>2 DEF View
  <2>5. CASE \E h \in todo : Seed(h)
    <3>1. PICK h \in todo : Seed(h)
      BY <2>5
    <3>2. /\ phase = "seeding" /\ phase' = "seeding"
          /\ table' = [table EXCEPT ![Key(Seeds(h))] = Seeds(h)]
      BY <3>1 DEF Seed, Store
    <3>3. table' = table
      BY <1>1, <3>2, SeedingFindsHosts
    <3>4. QED
      BY <3>2, <3>3 DEF View
  <2>6. QED
    BY <2>1, <2>2, <2>3, <2>4, <2>5
<1>2. IInv /\ [Next]_vars =>
          [ /\ Tidy(file) /\ saved
            /\ phase' # phase \/ todo' # todo
            => View' = View ]_vars
  BY <1>1
<1>3. QED
  BY <1>2, InvariantHolds, PTL DEF Spec, StartupChangesNothing

-----------------------------------------------------------------------------
(* A table without keys of dashes, with each host under the key of its     *)
(* spelling, makes a tidy list, and only such a table does.                *)
LEMMA TidyRecords ==
    ASSUME NEW t \in Tables, Fits(t)
    PROVE  Tidy(Records(t)) <=> \A m \in MACs : t[Dashed(m)] = NoEntry
<1>1. \A k \in Keys : t[k] # NoEntry =>
        t[k] \in Entry /\ t[k] \in Records(t) /\ Key(t[k]) = k
  BY DEF Tables, Fits, Records
<1>2. \A e \in Records(t) : Key(e) \in Keys /\ e = t[Key(e)] /\ e # NoEntry
  BY <1>1 DEF Records
<1>3. ASSUME Tidy(Records(t)), NEW m \in MACs, t[Dashed(m)] # NoEntry
      PROVE  FALSE
  <2>1. Dashed(m) \in Keys /\ Dashed(m).dashes = TRUE
    BY DEF Dashed, Keys
  <2>2. t[Dashed(m)].spelling # "dashes" /\ Key(t[Dashed(m)]) = Dashed(m)
    BY <1>1, <1>3, <2>1 DEF Tidy
  <2>3. Key(t[Dashed(m)]).dashes = (t[Dashed(m)].spelling = "dashes")
    BY DEF Key
  <2>4. QED
    BY <2>1, <2>2, <2>3, Zenon
<1>4. ASSUME \A m \in MACs : t[Dashed(m)] = NoEntry
      PROVE  Tidy(Records(t))
  <2>1. ASSUME NEW e \in Records(t)
        PROVE  e.spelling # "dashes" /\ Key(e) = Normal(e.mac)
    <3>1. e \in Entry /\ e.mac \in MACs
      BY <1>1, <1>2, <2>1 DEF Entry
    <3>2. e.spelling # "dashes"
      <4>1. SUFFICES ASSUME e.spelling = "dashes" PROVE FALSE
        OBVIOUS
      <4>2. Key(e) = Dashed(e.mac)
        BY <4>1 DEF Key, Dashed
      <4>3. QED
        BY <1>2, <1>4, <2>1, <3>1, <4>2
    <3>3. (e.spelling = "dashes") = FALSE
      BY <3>2
    <3>4. Key(e) = Normal(e.mac)
      BY <3>3, Zenon DEF Key, Normal
    <3>5. QED
      BY <3>2, <3>4
  <2>2. ASSUME NEW d \in Records(t), NEW e \in Records(t), d.mac = e.mac
        PROVE  d = e
    <3>1. Key(d) = Key(e)
      BY <2>1, <2>2
    <3>2. QED
      BY <1>2, <2>2, <3>1
  <2>3. QED
    BY <2>1, <2>2 DEF Tidy
<1>5. QED
  BY <1>3, <1>4

(* A handler saves its host under the normal key. *)
LEMMA HandlersStoreNormal ==
    ASSUME IInv, NEW m \in MACs,
           \/ \E n \in Names : Register(m, n) \/ AddHost(m, n)
           \/ \E d \in BOOLEAN : SetDisabled(m, d)
           \/ DeleteHost(m)
    PROVE  \A c \in MACs : table'[Dashed(c)] = table[Dashed(c)]
<1>1. Normal(m) \in Keys /\ \A c \in MACs : Dashed(c) # Normal(m)
  BY DEF Normal, Dashed, Keys
<1>2. ASSUME NEW e, Upsert(e), Key(e) = Normal(m)
      PROVE  \A c \in MACs : table'[Dashed(c)] = table[Dashed(c)]
  BY <1>1, <1>2 DEF Upsert, Store, IInv, TypeOK, Dashed, Keys
<1>3. CASE \E n \in Names : Register(m, n)
  BY <1>2, <1>3 DEF Register, Key, Normal
<1>4. CASE \E n \in Names : AddHost(m, n)
  BY <1>2, <1>4 DEF AddHost, Key, Normal
<1>5. CASE \E d \in BOOLEAN : SetDisabled(m, d)
  <2>1. PICK d \in BOOLEAN : SetDisabled(m, d)
    BY <1>5
  <2> DEFINE e == [table[Normal(m)] EXCEPT !.disabled = d]
  <2>2. table[Normal(m)] \in Entry /\ Key(table[Normal(m)]) = Normal(m)
    BY <1>1, <2>1 DEF SetDisabled, Found, IInv, TypeOK, Keyed
  <2>3. e.mac = table[Normal(m)].mac /\ e.spelling = table[Normal(m)].spelling
    BY <2>2 DEF Entry
  <2>4. Key(e) = Normal(m)
    BY <2>2, <2>3 DEF Key
  <2>5. QED
    BY <1>2, <2>1, <2>4 DEF SetDisabled
<1>6. CASE DeleteHost(m)
  BY <1>1, <1>6 DEF DeleteHost, Store, IInv, TypeOK, Dashed, Keys
<1>7. QED
  BY <1>3, <1>4, <1>5, <1>6

(* A tidy file opened leaves no host under a key with dashes. *)
LEMMA TidyIsOpened ==
    ASSUME IInv, Open, Tidy(file)
    PROVE  \A m \in MACs : table'[Dashed(m)] = NoEntry
<1>1. /\ file \in SUBSET Entry /\ table' \in Opened(file)
      /\ Records(table') = file
  BY TidyIsRead DEF IInv, TypeOK, Open
<1>2. table' \in Tables /\ Fits(table')
  BY OpenKeeps DEF IInv, TypeOK, Keyed, Tables, Fits
<1>3. QED
  BY <1>1, <1>2, TidyRecords

(* One step keeps the table beside a tidy file free of dashes, and the     *)
(* file tidy unless it is edited.                                          *)
LEMMA StepKeepsTidy ==
    ASSUME IInv, TidyTable, [Next]_vars
    PROVE  /\ TidyTable'
           /\ Tidy(file) /\ ~EditFile => Tidy(file')
<1>1. CASE phase' = "down" \/ Open
  <2>1. CASE phase' = "down"
    BY <1>1, <2>1
    DEF Next, vars, Open, Seed, Run, Down, Register, AddHost, SetDisabled,
        DeleteHost, Upsert, Wake, TidyTable
  <2>2. CASE Open
    BY <2>2, TidyIsOpened DEF Open, TidyTable
  <2>3. QED
    BY <1>1, <2>1, <2>2
<1>2. CASE \E h \in todo : Seed(h)
  <2>1. PICK h \in todo : Seed(h)
    BY <1>2
  <2>2. /\ phase = "seeding" /\ phase' = "seeding"
        /\ table' = [table EXCEPT ![Key(Seeds(h))] = Seeds(h)]
        /\ file' = Records(table')
    BY <2>1 DEF Seed, Store
  <2>3. table' \in Tables /\ Fits(table')
    BY <2>1, SeedKeeps DEF IInv, TypeOK, Keyed, Tables, Fits
  <2>4. Tidy(file') <=> \A m \in MACs : table'[Dashed(m)] = NoEntry
    BY <2>2, <2>3, TidyRecords
  <2>5. ASSUME Tidy(file)
        PROVE  Tidy(file')
    BY <2>2, <2>5, SeedingFindsHosts, SeedingShowsFile
  <2>6. QED
    BY <2>4, <2>5 DEF TidyTable
<1>3. ASSUME NEW m \in MACs,
             \/ \E n \in Names : Register(m, n) \/ AddHost(m, n)
             \/ \E d \in BOOLEAN : SetDisabled(m, d)
             \/ DeleteHost(m)
      PROVE  TidyTable' /\ (Tidy(file) => Tidy(file'))
  <2>1. /\ phase = "running" /\ phase' = "running"
        /\ file' = file \/ file' = Records(table')
    BY <1>3
    DEF Register, AddHost, SetDisabled, DeleteHost, Upsert, Store
  <2>2. table' \in Tables /\ Fits(table')
    BY <1>3, HandlersKeep DEF IInv, TypeOK, Keyed, Tables, Fits
  <2>3. Tidy(Records(table')) <=>
          \A c \in MACs : table'[Dashed(c)] = NoEntry
    BY <2>2, TidyRecords
  <2>4. ASSUME Tidy(file)
        PROVE  \A c \in MACs : table'[Dashed(c)] = NoEntry
    BY <1>3, <2>1, <2>4, HandlersStoreNormal DEF TidyTable
  <2>5. QED
    BY <2>1, <2>3, <2>4 DEF TidyTable
<1>4. CASE Run \/ (\E e \in Records(table) : Wake(e)) \/ UNCHANGED vars
  BY <1>4 DEF Run, Wake, vars, TidyTable
<1>5. CASE EditFile
  BY <1>5 DEF EditFile, TidyTable
<1>6. CASE Down
  BY <1>1, <1>6 DEF Down
<1>7. QED
  BY <1>1, <1>2, <1>3, <1>4, <1>5, <1>6 DEF Next

(* Beside a tidy file there is never a host under a key with dashes.       *)
THEOREM TablesAreTidy == Spec => []TidyTable
<1>1. Init => TidyTable
  BY DEF Init, TidyTable
<1>2. IInv /\ TidyTable /\ [Next]_vars => TidyTable'
  BY StepKeepsTidy
<1>3. QED
  BY <1>1, <1>2, InvariantHolds, PTL DEF Spec

(* Only people make the list untidy (main.go:137-153, registry.go:60-106). *)
THEOREM TidyListsStayTidy == Spec => TidyStays
<1>1. IInv /\ TidyTable /\ [Next]_vars =>
          [Tidy(file) /\ ~EditFile => Tidy(file')]_vars
  BY StepKeepsTidy
<1>2. QED
  BY <1>1, InvariantHolds, TablesAreTidy, PTL DEF Spec, TidyStays

(* If all that people write is tidy, then the list is at every moment, so  *)
(* that no start nor stop ever changes a host.                             *)
THEOREM AlwaysTidy ==
    ASSUME \A f \in Files : Tidy(f)
    PROVE  Spec => []Tidy(file)
<1>1. Init => Tidy(file)
  BY DEF Init
<1>2. IInv /\ TidyTable /\ Tidy(file) /\ [Next]_vars => Tidy(file)'
  BY StepKeepsTidy DEF EditFile, Tidy
<1>3. QED
  BY <1>1, <1>2, InvariantHolds, TablesAreTidy, PTL DEF Spec
=============================================================================
