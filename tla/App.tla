-------------------------------- MODULE App --------------------------------
(***************************************************************************)
(* The life of one installation: the vault's key (core/keys), the screens  *)
(* that open, lock, re-key and erase it (features/vault, features/settings)*)
(* the start of the app (core/app-bootstrap.ts), the sealed sync settings  *)
(* and the scheduler that begins sync cycles (core/sync).                  *)
(*                                                                         *)
(* A vault's id and its master key are drawn together, so both are the     *)
(* number of the vault here; a sealed value is opened by the key that      *)
(* sealed it and by no other.  The user does one thing at a time; the      *)
(* timer, the network listener and a cycle run beside them.                *)
(***************************************************************************)
EXTENDS Integers, FiniteSets

CONSTANTS
    Passphrases,
    Choices,        \* the settings the user may save
    MaxVaults,      \* bound: vaults ever created here
    MaxCrashes,     \* bound: kills in the middle of something
    None            \* nothing stored, nothing held

\* SyncSettings: a destination is configured, an interval other than 0 ("Manually only")
\* is chosen, Wi-Fi only.
Setting == [configured : BOOLEAN, timed : BOOLEAN, wifiOnly : BOOLEAN]

ASSUME AppAssumption ==
    /\ Choices \subseteq Setting
    /\ MaxVaults \in Nat /\ MaxCrashes \in Nat
    /\ None \notin 1 .. MaxVaults
    /\ None \notin [key : 1 .. MaxVaults, passphrase : Passphrases]

VARIABLES
    \* what outlives the app
    durable,    \* SecureStore.durable: the installed app, not a browser
    vaultId,    \* Preferences 'docket.vaultId'
    wrapped,    \* Preferences 'docket.wrappedMasterKey'
    biometric,  \* Preferences 'docket.biometricLock'
    keystore,   \* the secure store's 'docket.masterKey'
    blob,       \* meta 'sync.settings': the key that sealed it, and the setting
    ledger,     \* the vaults whose rows and operations the database holds
    \* what does not
    masterKey, state, vaultIdSignal,    \* VaultService
    settings,   \* SyncSettingsService.current
    timer, started,                     \* SyncSchedulerService
    wifi,       \* what Network.getStatus says
    cycle,      \* SyncService: how far a cycle is, the key and the id it uses
    page,       \* "none", "vault" or "tabs"
    pc, job,    \* what the user's last tap is doing, and on what
    \* history and bounds
    made,       \* vaults created
    erased,     \* erases begun
    told,       \* the passphrases the user may take to be set
    crashes     \* kills in the middle of something

stored == <<durable, vaultId, wrapped, biometric, keystore, blob, ledger>>
prefs == <<durable, vaultId, wrapped, biometric>>
memory == <<masterKey, state, vaultIdSignal>>
scheduler == <<settings, timer, started, wifi, cycle>>
counts == <<made, erased, told, crashes>>
vars == <<stored, memory, scheduler, page, pc, job, counts>>

Vaults == 1 .. MaxVaults
Key == Vaults \cup {None}

CycleAt(step) == [at |-> step, key |-> None, id |-> None]
NoCycle == CycleAt("none")
Running == cycle.at = "runs"

\* DEFAULT_SYNC_SETTINGS.
Default == [configured |-> FALSE, timed |-> TRUE, wifiOnly |-> FALSE]

\* wrapMasterKey: the key, to be had back with the passphrase.
Wrapped == [key : Vaults, passphrase : Passphrases]
Wrap(key, passphrase) == [key |-> key, passphrase |-> passphrase]

Init ==
    /\ durable \in BOOLEAN
    /\ vaultId = None /\ wrapped = None /\ biometric = FALSE /\ keystore = None
    /\ blob = None /\ ledger = {}
    /\ masterKey = None /\ state = "uninitialised" /\ vaultIdSignal = None
    /\ settings = Default /\ timer = FALSE /\ started = FALSE /\ cycle = NoCycle /\ wifi = TRUE
    /\ page = "none" /\ pc = "off" /\ job = None
    /\ made = 0 /\ erased = 0 /\ told = {} /\ crashes = 0

\* What a page can start: nothing else of the user's is under way.
At(screen) == pc = "rest" /\ page = screen

----------------------------------------------------------------------------
\* bootstrapApp(): VaultService.initialise decides which state to open in.

initialise(opened, next) ==
    /\ pc = "off"
    /\ vaultIdSignal' = vaultId
    /\ state' = opened
    /\ masterKey' = IF opened = "unlocked" THEN keystore ELSE None
    /\ pc' = next
    /\ page' = IF opened = "unlocked" THEN "none" ELSE "vault"
    /\ UNCHANGED <<stored, scheduler, job, counts>>

BootUninitialised == (vaultId = None \/ wrapped = None) /\ initialise("uninitialised", "rest")

\* No key in the keystore, or the device's check was refused.
BootLocked ==
    /\ vaultId # None /\ wrapped # None
    /\ keystore = None \/ biometric
    /\ initialise("locked", "rest")

BootUnlocked ==
    /\ vaultId # None /\ wrapped # None
    /\ keystore # None
    /\ initialise("unlocked", "inject")

\* The materialiser is injected after an await, outside the injection context:
\* whether that is refused is the framework's decision.
Inject(works) ==
    /\ pc = "inject"
    /\ pc' = IF works THEN "load" ELSE "dead"
    /\ UNCHANGED <<stored, memory, scheduler, page, job, counts>>

----------------------------------------------------------------------------
\* activateVault(), and the same steps at the end of bootstrapApp().

\* Mutant: settings that were never saved do not default.
LoadSaved ==
    /\ pc = "load"
    /\ blob # None /\ blob.key = masterKey
    /\ settings' = blob.setting
    /\ pc' = "start"
    /\ UNCHANGED <<stored, memory, timer, started, wifi, cycle, page, job, counts>>

\* settings.load(): opens the blob with the key at hand, or throws.
LoadSettings ==
    /\ pc = "load"
    /\ blob # None => blob.key = masterKey
    /\ settings' = IF blob = None THEN Default ELSE blob.setting
    /\ pc' = "start"
    /\ UNCHANGED <<stored, memory, timer, started, wifi, cycle, page, job, counts>>

\* On the vault page the error is shown; during a start there is no page yet.
LoadThrows ==
    /\ pc = "load"
    /\ blob # None /\ blob.key # masterKey
    /\ pc' = IF page = "vault" THEN "rest" ELSE "dead"
    /\ job' = None
    /\ UNCHANGED <<stored, memory, scheduler, page, counts>>

\* sync(): callers share the cycle in flight.
Asked == IF cycle = NoCycle THEN CycleAt("asked") ELSE cycle

\* scheduler.start(), syncNow() in the background, and on to the ledger.
Start ==
    /\ pc = "start"
    /\ started' = TRUE
    /\ cycle' = Asked
    /\ page' = "tabs" /\ pc' = "rest" /\ job' = None
    /\ UNCHANGED <<stored, memory, settings, timer, wifi, counts>>

----------------------------------------------------------------------------
\* VaultPage.submit().

\* create(): a new key, wrapped; then the two preferences, in either order.
Create(p) ==
    /\ At("vault")
    /\ state = "uninitialised"
    /\ made < MaxVaults
    /\ made' = made + 1
    /\ told' = {p}
    /\ job' = [wrapped |-> Wrap(made + 1, p), todo |-> {"id", "wrapped"}]
    /\ pc' = "create"
    /\ UNCHANGED <<stored, memory, scheduler, page, erased, crashes>>

WritePreference(x) ==
    /\ pc = "create"
    /\ x \in job.todo
    /\ vaultId' = IF x = "id" THEN job.wrapped.key ELSE vaultId
    /\ wrapped' = IF x = "wrapped" THEN job.wrapped ELSE wrapped
    /\ job' = [job EXCEPT !.todo = @ \ {x}]
    /\ UNCHANGED <<durable, biometric, keystore, blob, ledger, memory, scheduler, page, pc, counts>>

Created ==
    /\ pc = "create"
    /\ job.todo = {}
    /\ vaultIdSignal' = job.wrapped.key
    /\ masterKey' = job.wrapped.key
    /\ pc' = "adopt"
    /\ UNCHANGED <<stored, state, scheduler, page, job, counts>>

\* unlock(): a wrong passphrase changes nothing.
Unlock(p) ==
    /\ At("vault")
    /\ state # "uninitialised"
    /\ wrapped # None /\ wrapped.passphrase = p
    /\ masterKey' = wrapped.key
    /\ pc' = "adopt"
    /\ UNCHANGED <<stored, state, vaultIdSignal, scheduler, page, job, counts>>

\* adopt(): the key goes to the keystore where there is one, then the state.
\* submit() seeds a vault it has created: the reporting currency is written always,
\* the starter rows only into a database without history.
adopt ==
    /\ pc = "adopt"
    /\ keystore' = IF durable THEN masterKey ELSE keystore
    /\ state' = "unlocked"
    /\ pc' = IF job = None THEN "load" ELSE "seed"
    /\ UNCHANGED <<prefs, blob, ledger, masterKey, vaultIdSignal, scheduler, page, job, counts>>

Seed ==
    /\ pc = "seed"
    /\ ledger' = ledger \cup {vaultIdSignal}
    /\ pc' = "load"
    /\ UNCHANGED <<prefs, keystore, blob, memory, scheduler, page, job, counts>>

----------------------------------------------------------------------------
\* Settings and security pages.

\* lock(): the key first, then - after an await - the keystore and the state.
lock(next) ==
    /\ At("tabs")
    /\ masterKey' = None
    /\ pc' = next
    /\ UNCHANGED <<stored, state, vaultIdSignal, scheduler, page, job, counts>>

Lock == lock("lock")

\* Mutant: the preferences are removed and the key is left to the end.
DestroyUnlocked ==
    /\ At("tabs")
    /\ job' = [todo |-> {"id", "wrapped"}]
    /\ pc' = "erase"
    /\ UNCHANGED <<stored, memory, scheduler, page, counts>>

\* destroy(): lock() first.
Destroy == lock("destroy")

Locked ==
    /\ pc \in {"lock", "destroy"}
    /\ keystore' = None
    /\ state' = IF vaultIdSignal = None THEN "uninitialised" ELSE "locked"
    /\ IF pc = "lock"
       THEN page' = "vault" /\ pc' = "rest" /\ job' = job
       ELSE page' = page /\ pc' = "erase" /\ job' = [todo |-> {"id", "wrapped"}]
    /\ erased' = IF pc = "lock" THEN erased ELSE erased + 1
    /\ UNCHANGED <<prefs, blob, ledger, masterKey, vaultIdSignal, scheduler, made, told, crashes>>

ErasePreference(x) ==
    /\ pc = "erase"
    /\ x \in job.todo
    /\ vaultId' = IF x = "id" THEN None ELSE vaultId
    /\ wrapped' = IF x = "wrapped" THEN None ELSE wrapped
    /\ job' = [job EXCEPT !.todo = @ \ {x}]
    /\ UNCHANGED <<durable, biometric, keystore, blob, ledger, memory, scheduler, page, pc, counts>>

Destroyed ==
    /\ pc = "erase"
    /\ job.todo = {}
    /\ vaultIdSignal' = None
    /\ state' = "uninitialised"
    /\ page' = "vault" /\ pc' = "rest" /\ job' = None
    /\ UNCHANGED <<stored, masterKey, scheduler, counts>>

\* changePassphrase(): unwrap with the current one, wrap again, write.
ChangePassphrase(current, next) ==
    /\ At("tabs")
    /\ wrapped # None /\ wrapped.passphrase = current
    /\ current # next
    /\ told' = {current, next}
    /\ job' = Wrap(wrapped.key, next)
    /\ pc' = "change"
    /\ UNCHANGED <<stored, memory, scheduler, page, made, erased, crashes>>

\* Mutant: the page reports success before the write.
ChangedEarly ==
    /\ pc = "change"
    /\ told' = {job.passphrase}
    /\ \/ wrapped' = job /\ pc' = "rest" /\ job' = None
       \/ UNCHANGED <<wrapped, pc, job>>
    /\ UNCHANGED <<durable, vaultId, biometric, keystore, blob, ledger, memory, scheduler, page,
                   made, erased, crashes>>

Changed ==
    /\ pc = "change"
    /\ wrapped' = job
    /\ told' = {job.passphrase}
    /\ pc' = "rest" /\ job' = None
    /\ UNCHANGED <<durable, vaultId, biometric, keystore, blob, ledger, memory, scheduler, page,
                   made, erased, crashes>>

\* setBiometricLock(): offered on the installed app, and proved before it is trusted.
SetBiometricLock(enabled) ==
    /\ At("tabs") /\ durable
    /\ biometric # enabled
    /\ biometric' = enabled
    /\ UNCHANGED <<durable, vaultId, wrapped, keystore, blob, ledger, memory, scheduler, page, pc,
                   job, counts>>

\* SyncSettingsPage.save(): seal, store, and sync if there is a destination.
SaveSettings(chosen) ==
    /\ At("tabs")
    /\ masterKey # None
    /\ settings # chosen \/ blob = None
    /\ blob' = [key |-> masterKey, setting |-> chosen]
    /\ settings' = chosen
    /\ cycle' = IF chosen.configured THEN Asked ELSE cycle
    /\ UNCHANGED <<prefs, keystore, ledger, memory, timer, started, wifi, page, pc, job, counts>>

\* syncNow() by a tap or a pull: whatever the schedule says.
SyncNow ==
    /\ At("tabs")
    /\ cycle = NoCycle
    /\ cycle' = Asked
    /\ UNCHANGED <<stored, memory, settings, timer, started, wifi, page, pc, job, counts>>

----------------------------------------------------------------------------
\* SyncSchedulerService.

\* Mutant: only the interval decides.
ArmedAlways == pc # "off" /\ settings.timed

\* The effect: an interval, and a vault that is unlocked.  It runs some time after what
\* it depends on has changed.
Armed == state = "unlocked" /\ settings.timed

Arm ==
    /\ timer # Armed
    /\ timer' = Armed
    /\ UNCHANGED <<stored, memory, settings, started, wifi, cycle, page, pc, job, counts>>

\* runIfUnlocked(), which may wait for the kind of network; a cycle in flight is shared.
runIfUnlocked ==
    /\ state = "unlocked"
    /\ settings.wifiOnly => wifi
    /\ cycle = NoCycle
    /\ cycle' = Asked
    /\ UNCHANGED <<stored, memory, settings, timer, started, wifi, page, pc, job, counts>>

Tick == timer /\ runIfUnlocked

\* The network coming back (where that is wanted) or the app coming to the front.
Wake == started /\ runIfUnlocked

NetworkChanges ==
    /\ pc # "off"
    /\ wifi' = ~wifi
    /\ UNCHANGED <<stored, memory, settings, timer, started, cycle, page, pc, job, counts>>

\* runCycle(): asks again, waits for the adapter to be loaded, takes key and id.
\* No destination or a locked vault end it quietly, a missing key with an error.
runCycle ==
    /\ cycle.at = "asked"
    /\ cycle' = IF state = "unlocked" /\ settings.configured THEN CycleAt("adapter") ELSE NoCycle
    /\ UNCHANGED <<stored, memory, settings, timer, started, wifi, page, pc, job, counts>>

\* Mutant: a cycle that throws is still the one in flight.
TakeKeyOrHang ==
    /\ cycle.at = "adapter"
    /\ cycle' = IF masterKey = None \/ vaultIdSignal = None THEN CycleAt("failed")
                ELSE [at |-> "runs", key |-> masterKey, id |-> vaultIdSignal]
    /\ UNCHANGED <<stored, memory, settings, timer, started, wifi, page, pc, job, counts>>

TakeKey ==
    /\ cycle.at = "adapter"
    /\ cycle' = IF masterKey = None \/ vaultIdSignal = None THEN NoCycle
                ELSE [at |-> "runs", key |-> masterKey, id |-> vaultIdSignal]
    /\ UNCHANGED <<stored, memory, settings, timer, started, wifi, page, pc, job, counts>>

\* Whatever becomes of it, a cycle ends: see Sync.
Finish ==
    /\ Running
    /\ cycle' = NoCycle
    /\ UNCHANGED <<stored, memory, settings, timer, started, wifi, page, pc, job, counts>>

----------------------------------------------------------------------------
\* The process ends: with it everything in memory.
Die ==
    /\ masterKey' = None /\ state' = "uninitialised" /\ vaultIdSignal' = None
    /\ settings' = Default /\ timer' = FALSE /\ started' = FALSE /\ cycle' = NoCycle
    /\ page' = "none" /\ pc' = "off" /\ job' = None
    /\ UNCHANGED <<stored, wifi, made, erased, told>>

Quit == pc \in {"rest", "dead"} /\ Die /\ UNCHANGED crashes

Crash ==
    /\ pc \notin {"off", "rest", "dead"}
    /\ crashes < MaxCrashes
    /\ crashes' = crashes + 1
    /\ Die

Open == BootUninitialised \/ BootLocked \/ BootUnlocked

Proceed ==
    \/ Inject(TRUE) \/ Inject(FALSE) \/ LoadSettings \/ LoadThrows \/ Start
    \/ \E x \in {"id", "wrapped"} : WritePreference(x) \/ ErasePreference(x)
    \/ Created \/ adopt \/ Seed \/ Locked \/ Destroyed \/ Changed

User ==
    \/ \E p \in Passphrases : Create(p) \/ Unlock(p)
    \/ \E p, q \in Passphrases : ChangePassphrase(p, q)
    \/ \E b \in BOOLEAN : SetBiometricLock(b)
    \/ \E s \in Choices : SaveSettings(s)
    \/ SyncNow \/ Lock \/ Destroy

Background == Arm \/ Tick \/ Wake \/ NetworkChanges \/ runCycle \/ TakeKey \/ Finish

Next == Open \/ Proceed \/ User \/ Background \/ Quit \/ Crash

Spec == Init /\ [][Next]_vars

\* What has been started goes on, and a timer that is armed fires.  Nobody has to tap
\* anything, the app need not come to the front, the network need not come back.
Fairness ==
    /\ WF_vars(Proceed)
    /\ WF_vars(Arm) /\ WF_vars(Tick)
    /\ WF_vars(runCycle \/ TakeKey \/ Finish)

FairSpec == Spec /\ Fairness

----------------------------------------------------------------------------
\* Every variable has its type, and a tap that takes several steps has what it works on.
TypeOK ==
    /\ durable \in BOOLEAN /\ biometric \in BOOLEAN
    /\ vaultId \in Key /\ wrapped \in Wrapped \cup {None} /\ keystore \in Key
    /\ masterKey \in Key /\ vaultIdSignal \in Key
    /\ state \in {"uninitialised", "locked", "unlocked"}
    /\ blob \in [key : Key, setting : Setting] \cup {None} /\ settings \in Setting /\ wifi \in BOOLEAN
    /\ cycle \in [at : {"none", "asked", "adapter", "runs"}, key : Key, id : Key]
    /\ page \in {"none", "vault", "tabs"}
    /\ pc \in {"off", "rest", "inject", "load", "start", "create", "adopt", "seed", "lock", "destroy",
               "erase", "change", "dead"}
    /\ pc = "create" => job \in [wrapped : Wrapped, todo : SUBSET {"id", "wrapped"}]
    /\ pc = "erase" => job \in [todo : SUBSET {"id", "wrapped"}]
    /\ pc = "change" => job \in Wrapped
    /\ made \in 0 .. MaxVaults /\ erased \in Nat /\ told \in SUBSET Passphrases /\ crashes \in Nat

\* The keys belong together, one kill wherever it falls included.  What the keystore
\* holds is the key the stored passphrase protects, for the stored vault, so that an erase
\* cut short never leaves a key that opens a later vault; between two taps the vault says
\* it is unlocked exactly when it holds a key; that key is the one of the vault it names;
\* and a cycle seals for the vault it uploads to.  (Two kills can leave the id of one vault
\* beside the key of another: create and destroy write their two preferences apart.)
KeysMatch ==
    crashes <= 1 =>
        /\ keystore # None => /\ vaultId = keystore
                              /\ wrapped # None /\ wrapped.key = keystore
        /\ pc = "rest" => (state = "unlocked" <=> masterKey # None)
        /\ masterKey # None /\ vaultIdSignal # None => masterKey = vaultIdSignal
        /\ Running => cycle.key = cycle.id

\* Whenever the app asks for a passphrase, the one the user was last told is set opens
\* the vault - one of the two, after a change that was never confirmed.
KnownPassphraseOpens ==
    state = "locked" /\ pc = "rest" /\ crashes <= 1 =>
        wrapped # None /\ wrapped.passphrase \in told

\* A vault once unlocked reaches the ledger, unless the app goes away first or an
\* earlier vault was erased here: destroy() leaves that vault's sealed settings behind,
\* and load() cannot open them.
UnlockedOpens ==
    pc \in {"adopt", "load"} /\ page = "vault" /\ erased = 0 ~> page = "tabs" \/ pc = "off"

\* After a lock the app falls silent: no timer, no cycle, and with it no copy of the
\* key, until somebody unlocks it.
LockedFallsSilent ==
    state = "locked" /\ pc = "rest" ~> (~timer /\ cycle = NoCycle) \/ state # "locked"

\* The settings ask for cycles by themselves, and the network is one they allow.
Scheduled == settings.configured /\ settings.timed /\ (settings.wifiOnly => wifi)

\* As long as the ledger is open, a destination and an interval are set and the network
\* is an allowed one, a cycle runs sooner or later: whatever the one before it met - a
\* vault locked half way, a missing key - or the settings were before, does not keep the
\* next from beginning.
OpenKeepsSyncing ==
    page = "tabs" /\ Scheduled
        ~> Running \/ page # "tabs" \/ ~Scheduled \/ pc # "rest"
=============================================================================
