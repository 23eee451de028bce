--------------------------- MODULE BluetoothPairing ---------------------------
(***************************************************************************)
(* The pairing guard (disable-bluetooth-pairing.py): once each boot-time   *)
(* adapter appears on BlueZ's bus, turn its Pairable off.  BlueZ registers *)
(* adapters while the guard looks, crashes and comes back under another    *)
(* unique name; systemd restarts the guard with bluetooth.service; users   *)
(* turn pairing on.                                                        *)
(*                                                                         *)
(* A generation of BlueZ stands for its unique bus name.  Signals and the  *)
(* snapshot only ever add to what is ready, so the order in which the      *)
(* guard reads them is left open.                                          *)
(***************************************************************************)
EXTENDS Naturals

CONSTANTS
  Adapters,      \* the adapters sysfs showed when the guard started
  MaxGenerations \* bound: how often BlueZ is started

ASSUME PairingAssumption == MaxGenerations \in Nat \ {0}

VARIABLES
  daemon,     \* the generation of BlueZ that owns org.bluez
  registered, \* the adapters on its bus
  pairable,   \* those that accept pairing
  phase,      \* what the guard waits for
  owner,      \* the generation it talks to
  signals,    \* InterfacesAdded signals on their way to it
  listing,    \* the snapshot on its way to it
  ready,      \* the adapters it knows to be registered
  setting,    \* its property write to each adapter
  touched     \* adapters something else changed after that write (a history)

bluez == <<daemon, registered, pairable>>
guard == <<phase, owner, listing, ready, setting>>
bt_vars == <<bluez, guard, signals, touched>>

\* Variant: the guard subscribes after it has the snapshot.
MatchingLate == {"applying"}

\* After AddMatch was acknowledged, the bus forwards BlueZ's signals.
Matching == {"matched", "answered", "applying"}

PairingTypeOK ==
  /\ daemon \in 1..MaxGenerations
  /\ registered \in SUBSET Adapters
  /\ pairable \in SUBSET Adapters
  /\ phase \in {"start", "owned", "matched", "answered", "applying", "done", "failed"}
  /\ owner \in 0..MaxGenerations
  /\ signals \in SUBSET Adapters
  /\ listing \in SUBSET Adapters
  /\ ready \in SUBSET Adapters
  /\ setting \in [Adapters -> {"none", "sent", "handled", "rejected"}]
  /\ touched \in SUBSET Adapters

GuardStarts ==
  /\ phase' = "start"
  /\ owner' = 0
  /\ signals' = {}
  /\ listing' = {}
  /\ ready' = {}
  /\ setting' = [a \in Adapters |-> "none"]
  /\ touched' = {}

PairingInit ==
  /\ daemon = 1
  /\ registered = {}
  /\ pairable = {}
  /\ phase = "start"
  /\ owner = 0
  /\ signals = {}
  /\ listing = {}
  /\ ready = {}
  /\ setting = [a \in Adapters |-> "none"]
  /\ touched = {}

-----------------------------------------------------------------------------
(* disable_pairing *)

\* GetNameOwner; the handler is installed.
AskOwner ==
  /\ phase = "start"
  /\ phase' = "owned"
  /\ owner' = daemon
  /\ UNCHANGED <<bluez, listing, ready, setting, signals, touched>>

\* The bus acknowledges the match: from here on signals reach the guard.
AddMatch ==
  /\ phase = "owned"
  /\ phase' = "matched"
  /\ UNCHANGED <<bluez, owner, listing, ready, setting, signals, touched>>

\* GetManagedObjects goes to the owner found first: BlueZ answers with what is
\* registered now, or nobody answers to that name any more.
Snapshot ==
  /\ phase = "matched"
  /\ \/ /\ daemon = owner
        /\ phase' = "answered"
        /\ listing' = registered
     \/ /\ daemon # owner
        /\ phase' = "failed"
        /\ UNCHANGED listing
  /\ UNCHANGED <<bluez, owner, ready, setting, signals, touched>>

ReadSnapshot ==
  /\ phase = "answered"
  /\ phase' = "applying"
  /\ ready' = ready \cup listing
  /\ UNCHANGED <<bluez, owner, listing, setting, signals, touched>>

\* The handler runs whatever the guard waits for.
ReadSignal(a) ==
  /\ a \in signals
  /\ phase \in Matching
  /\ signals' = signals \ {a}
  /\ ready' = ready \cup {a}
  /\ UNCHANGED <<bluez, phase, owner, listing, setting, touched>>

\* One task per adapter writes Pairable once its adapter is ready.
SendSet(a) ==
  /\ phase = "applying"
  /\ a \in ready /\ setting[a] = "none"
  /\ setting' = [setting EXCEPT ![a] = "sent"]
  /\ UNCHANGED <<bluez, phase, owner, listing, ready, signals, touched>>

\* Variant: an error in reply to the write is not looked at.
HandleSetUnchecked(a) ==
  /\ setting[a] = "sent"
  /\ setting' = [setting EXCEPT ![a] = "handled"]
  /\ pairable' = IF daemon = owner THEN pairable \ {a} ELSE pairable
  /\ touched' = touched \ {a}
  /\ UNCHANGED <<daemon, registered, phase, owner, listing, ready, signals>>

\* BlueZ changes the adapter and answers; the write is refused when the adapter or
\* that BlueZ is gone.  It may arrive after the guard has given up.
HandleSet(a) ==
  /\ setting[a] = "sent"
  /\ \/ /\ daemon = owner /\ a \in registered
        /\ setting' = [setting EXCEPT ![a] = "handled"]
        /\ pairable' = pairable \ {a}
        /\ touched' = touched \ {a}
     \/ /\ ~(daemon = owner /\ a \in registered)
        /\ setting' = [setting EXCEPT ![a] = "rejected"]
        /\ UNCHANGED <<pairable, touched>>
  /\ UNCHANGED <<daemon, registered, phase, owner, listing, ready, signals>>

\* The task group ends with its last task, or with the first that fails.
Finished ==
  /\ phase = "applying"
  /\ \/ /\ \A a \in Adapters : setting[a] = "handled"
        /\ phase' = "done"
     \/ /\ \E a \in Adapters : setting[a] = "rejected"
        /\ phase' = "failed"
  /\ UNCHANGED <<bluez, owner, listing, ready, setting, signals, touched>>

\* The deadline passes, the bus disconnects or a call is refused.
GiveUp ==
  /\ phase \notin {"done", "failed"}
  /\ phase' = "failed"
  /\ UNCHANGED <<bluez, owner, listing, ready, setting, signals, touched>>

-----------------------------------------------------------------------------
(* BlueZ, systemd and the user. *)

Touch(changed) == touched' = touched \cup {a \in changed : setting[a] = "handled"}

\* A new adapter is pairable, and its signal goes to whoever matches this BlueZ.
Register(a) ==
  /\ a \notin registered
  /\ registered' = registered \cup {a}
  /\ pairable' = pairable \cup {a}
  /\ signals' = IF phase \in Matching /\ daemon = owner THEN signals \cup {a} ELSE signals
  /\ Touch({a})
  /\ UNCHANGED <<daemon, guard>>

Unregister(a) ==
  /\ a \in registered
  /\ registered' = registered \ {a}
  /\ pairable' = pairable \ {a}
  /\ Touch({a})
  /\ UNCHANGED <<daemon, guard, signals>>

UserPairs(a) ==
  /\ a \in registered \ pairable
  /\ pairable' = pairable \cup {a}
  /\ Touch({a})
  /\ UNCHANGED <<daemon, registered, guard, signals>>

NextGeneration ==
  /\ daemon < MaxGenerations
  /\ daemon' = daemon + 1
  /\ registered' = {}
  /\ pairable' = {}

\* BlueZ crashes and is activated again: the guard is not told.
Crash ==
  /\ NextGeneration
  /\ Touch(Adapters)
  /\ UNCHANGED <<guard, signals>>

\* bluetooth.service is restarted, and the guard with it (PartOf).
RestartService ==
  /\ NextGeneration
  /\ GuardStarts

-----------------------------------------------------------------------------
GuardStep ==
  \/ AskOwner \/ AddMatch \/ Snapshot \/ ReadSnapshot \/ Finished
  \/ \E a \in Adapters : ReadSignal(a) \/ SendSet(a) \/ HandleSet(a)

PairingNext ==
  \/ GuardStep \/ GiveUp \/ Crash \/ RestartService
  \/ \E a \in Adapters : Register(a) \/ Unregister(a) \/ UserPairs(a)

PairingSpec == PairingInit /\ [][PairingNext]_bt_vars

-----------------------------------------------------------------------------
(* Properties. *)

\* "Subscribe before inspecting current adapters": from the snapshot on, every
\* adapter the guard's BlueZ has registered is known to it, or will be from a signal
\* or the answer under way; none registers unnoticed between the two.
NoneMissed ==
  phase \in {"answered", "applying"} /\ daemon = owner =>
    registered \subseteq ready \cup signals \cup (IF phase = "answered" THEN listing ELSE {})

\* A guard that reports success has turned pairing off on every adapter, in the BlueZ
\* it asked; what is pairable now was registered again, restarted or enabled since.
SuccessMeansOff ==
  phase = "done" => \A a \in Adapters : a \in touched \/ (a \in registered /\ a \notin pairable)
=============================================================================
