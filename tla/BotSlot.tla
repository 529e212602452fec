------------------------------- MODULE BotSlot -------------------------------
(***************************************************************************)
(* The Telegram bot as its users think of it: a slot that is empty or      *)
(* holds one bot, which serves with the settings that were wanted when it  *)
(* was turned on, and which is not disturbed while they stay the same.     *)
(* BotLifecycle implements this while restarts take turns.                 *)
(***************************************************************************)
EXTENDS Naturals

CONSTANTS
    Settings,
    Disabled   \* the settings that want no bot

VARIABLES
    wanted,    \* the settings the server has
    polling,   \* the bots that poll, each with its number and settings
    made,      \* how many bots there have been
    behind,    \* the server has missed that the bot is not what is wanted
    stopped    \* the server has been asked to stop

slotVars == <<wanted, polling, made, behind, stopped>>

Init ==
    /\ wanted \in Settings
    /\ polling = {}
    /\ made = 0
    /\ behind = FALSE
    /\ stopped = FALSE

(* The settings change, and for now the bot stays what it is. *)
Want ==
    /\ wanted' \in Settings
    /\ UNCHANGED <<polling, made, behind, stopped>>

(* A stop may meet the server before it has turned on its first bot, which *)
(* it then may do all the same.                                            *)
TurnOn ==
    /\ polling = {}
    /\ wanted \notin Disabled
    /\ stopped => made = 0
    /\ made' = made + 1
    /\ polling' = {[bot |-> made', settings |-> wanted]}
    /\ behind' = FALSE
    /\ UNCHANGED <<wanted, stopped>>

(* No bot is wanted, and there is none. *)
LeaveOff ==
    /\ polling = {}
    /\ wanted \in Disabled
    /\ behind' = FALSE
    /\ UNCHANGED <<wanted, polling, made, stopped>>

NotAsWanted == \A b \in polling : b.settings # wanted

TurnOff ==
    /\ polling # {}
    /\ NotAsWanted \/ behind \/ stopped
    /\ polling' = {}
    /\ UNCHANGED <<wanted, made, behind, stopped>>

(* A verification or a connection fails, and nobody tries again. *)
Miss ==
    /\ NotAsWanted
    /\ behind' = TRUE
    /\ UNCHANGED <<wanted, polling, made, stopped>>

Stop ==
    /\ stopped' = TRUE
    /\ UNCHANGED <<wanted, polling, made, behind>>

Next == Want \/ TurnOn \/ LeaveOff \/ TurnOff \/ Miss \/ Stop

Spec == Init /\ [][Next]_slotVars
=============================================================================
