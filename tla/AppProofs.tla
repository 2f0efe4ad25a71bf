----------------------------- MODULE AppProofs -----------------------------
(***************************************************************************)
(* What holds of the vault's keys for any number of vaults, passphrases    *)
(* and starts of the app.                                                  *)
(***************************************************************************)
EXTENDS App, TLAPS

----------------------------------------------------------------------------
\* The invariant.

\* The two preferences belong to one vault, whose passphrase the user knows.
Whole == vaultId # None /\ wrapped # None /\ wrapped.key = vaultId /\ wrapped.passphrase \in told

\* One of the two is missing: no vault, whatever the other says.
Torn == vaultId = None \/ wrapped = None

\* How far a step of the user's has got.
Jobs ==
    /\ pc = "create" => /\ job.wrapped.passphrase \in told
                        /\ "id" \notin job.todo => vaultId = job.wrapped.key
                        /\ "wrapped" \notin job.todo => wrapped = job.wrapped
    /\ pc = "erase" => /\ "id" \notin job.todo => vaultId = None
                       /\ "wrapped" \notin job.todo => wrapped = None
    /\ pc = "change" => job.key = wrapped.key /\ job.passphrase \in told

\* The preferences are whole or torn, except while create() writes over torn ones; the
\* keystore holds the key of whole ones.
Stored ==
    /\ pc # "create" => Whole \/ Torn
    /\ keystore # None => Whole /\ keystore = vaultId /\ pc # "create"

\* Before the first kill the two are there together or missing together, except half way
\* through create() and destroy(): create() has nothing to write over.
Unbroken ==
    crashes = 0 =>
        /\ pc \notin {"create", "erase"} => Whole \/ (vaultId = None /\ wrapped = None)
        /\ pc = "create" => /\ "id" \in job.todo => vaultId = None
                            /\ "wrapped" \in job.todo => wrapped = None

\* The key, the id and the state in memory, by where the user's last tap is.
HasKey == masterKey = vaultId /\ vaultIdSignal = vaultId /\ Whole
NoKey == masterKey = None

Opened ==
    /\ pc = "off" => NoKey /\ state = "uninitialised"
    /\ pc = "rest" => \/ state = "uninitialised" /\ NoKey /\ Torn /\ page = "vault"
                      \/ state = "locked" /\ NoKey /\ Whole /\ vaultIdSignal = vaultId /\ page = "vault"
                      \/ state = "unlocked" /\ HasKey
    /\ pc \in {"inject", "load", "start", "seed", "change", "dead"} => state = "unlocked" /\ HasKey
    /\ pc = "create" => state = "uninitialised" /\ NoKey
    /\ pc = "adopt" => HasKey
    /\ pc \in {"lock", "destroy"} => NoKey /\ Whole /\ vaultIdSignal = vaultId
    /\ pc = "erase" => NoKey /\ keystore = None

KeyInv == Jobs /\ Stored /\ Unbroken /\ Opened

\* A second kill may find the preferences of two vaults half written over each other.
AppInv == TypeOK /\ (crashes <= 1 => KeyInv /\ (Running => cycle.key = cycle.id))
----------------------------------------------------------------------------
\* Types.

LEMMA NoneApart == None \notin Vaults /\ None \notin Wrapped
BY AppAssumption DEF Vaults, Wrapped

LEMMA DefaultType == Default \in Setting
BY DEF Default, Setting

\* At the start, and when the app is opened.
LEMMA TypeInit == Init => TypeOK
<1>1. 0 \in 0 .. MaxVaults
  BY AppAssumption
<1>2. NoCycle \in [at : {"none", "asked", "adapter", "runs"}, key : Key, id : Key]
  BY DEF NoCycle, CycleAt, Key
<1>3. Init => durable \in BOOLEAN /\ biometric \in BOOLEAN /\ wifi \in BOOLEAN
  BY DEF Init
<1> QED
  BY <1>1, <1>2, <1>3, DefaultType DEF Init, TypeOK, Key

LEMMA TypeOpen ==
    ASSUME TypeOK, Open
    PROVE  TypeOK'
<1> USE DEF TypeOK, Key, stored, scheduler, counts
<1>1. CASE BootUninitialised
  BY <1>1 DEF BootUninitialised, initialise
<1>2. CASE BootLocked
  BY <1>2 DEF BootLocked, initialise
<1>3. CASE BootUnlocked
  BY <1>3 DEF BootUnlocked, initialise
<1> QED
  BY <1>1, <1>2, <1>3 DEF Open

LEMMA AskedType ==
    ASSUME TypeOK
    PROVE  /\ Asked \in [at : {"none", "asked", "adapter", "runs"}, key : Key, id : Key]
           /\ NoCycle \in [at : {"none", "asked", "adapter", "runs"}, key : Key, id : Key]
           /\ Asked.at = "runs" => Asked = cycle
BY DEF TypeOK, Asked, CycleAt, NoCycle, Key

LEMMA TypeProceed ==
    ASSUME TypeOK, Proceed
    PROVE  TypeOK'
<1> USE DEF TypeOK, Key, stored, prefs, memory, scheduler, counts
<1>1. CASE Inject(TRUE) \/ Inject(FALSE) \/ LoadSettings \/ LoadThrows
  BY <1>1, DefaultType DEF Inject, LoadSettings, LoadThrows
<1>2. CASE Start
  BY <1>2, AskedType DEF Start
<1>3. ASSUME NEW x \in {"id", "wrapped"}, WritePreference(x) PROVE TypeOK'
  <2>1. job.wrapped \in Wrapped /\ job.wrapped.key \in Vaults
    BY <1>3 DEF WritePreference, Wrapped
  <2> QED
    BY <1>3, <2>1 DEF WritePreference
<1>4. ASSUME NEW x \in {"id", "wrapped"}, ErasePreference(x) PROVE TypeOK'
  BY <1>4 DEF ErasePreference
<1>5. CASE Created
  <2>1. job.wrapped.key \in Vaults
    BY <1>5 DEF Created, Wrapped
  <2> QED
    BY <1>5, <2>1 DEF Created
<1>6. CASE adopt \/ Seed \/ Destroyed
  BY <1>6 DEF adopt, Seed, Destroyed
<1>7. CASE Locked
  BY <1>7 DEF Locked
<1>8. CASE Changed
  BY <1>8 DEF Changed, Wrapped
<1> QED
  BY <1>1, <1>2, <1>3, <1>4, <1>5, <1>6, <1>7, <1>8 DEF Proceed

LEMMA TypeUser ==
    ASSUME TypeOK, User
    PROVE  TypeOK'
<1> USE DEF TypeOK, Key, stored, prefs, memory, scheduler, counts
<1>1. ASSUME NEW p \in Passphrases, Create(p) PROVE TypeOK'
  <2>1. made' \in 0 .. MaxVaults /\ made + 1 \in Vaults
    BY <1>1, AppAssumption DEF Create, Vaults
  <2>2. job' \in [wrapped : Wrapped, todo : SUBSET {"id", "wrapped"}]
    BY <1>1, <2>1 DEF Create, Wrap, Wrapped
  <2> QED
    BY <1>1, <2>1, <2>2 DEF Create
<1>2. ASSUME NEW p \in Passphrases, Unlock(p) PROVE TypeOK'
  BY <1>2 DEF Unlock, Wrapped
<1>3. ASSUME NEW p \in Passphrases, NEW q \in Passphrases, ChangePassphrase(p, q) PROVE TypeOK'
  <2>1. job' \in Wrapped
    BY <1>3 DEF ChangePassphrase, Wrap, Wrapped
  <2> QED
    BY <1>3, <2>1 DEF ChangePassphrase
<1>4. ASSUME NEW b \in BOOLEAN, SetBiometricLock(b) PROVE TypeOK'
  BY <1>4 DEF SetBiometricLock
<1>5. ASSUME NEW s \in Choices, SaveSettings(s) PROVE TypeOK'
  <2>1. s \in Setting
    BY AppAssumption
  <2> QED
    BY <1>5, <2>1, AskedType DEF SaveSettings
<1>7. CASE SyncNow
  BY <1>7, AskedType DEF SyncNow
<1>6. CASE Lock \/ Destroy
  BY <1>6 DEF Lock, Destroy, lock
<1> QED
  BY <1>1, <1>2, <1>3, <1>4, <1>5, <1>6, <1>7 DEF User

\* What runs beside the user touches the timer and the cycle, and a cycle takes the key
\* and the id together.
LEMMA BackgroundEffect ==
    ASSUME TypeOK, Background
    PROVE  /\ UNCHANGED <<stored, memory, settings, started, page, pc, job, counts>>
           /\ cycle' \in [at : {"none", "asked", "adapter", "runs"}, key : Key, id : Key]
           /\ wifi' \in BOOLEAN
           /\ Running' => \/ cycle' = cycle
                          \/ /\ masterKey # None /\ vaultIdSignal # None
                             /\ cycle'.key = masterKey /\ cycle'.id = vaultIdSignal
<1> USE DEF TypeOK, Running
<1>1. CASE Arm
  BY <1>1 DEF Arm
<1>2. CASE Tick \/ Wake
  BY <1>2, AskedType DEF Tick, Wake, runIfUnlocked
<1>5. CASE NetworkChanges
  BY <1>5 DEF NetworkChanges
<1>3. CASE runCycle \/ Finish
  BY <1>3, AskedType DEF runCycle, Finish, NoCycle, CycleAt, Key
<1>4. CASE TakeKey
  BY <1>4, AskedType DEF TakeKey, NoCycle, CycleAt
<1> QED
  BY <1>1, <1>2, <1>3, <1>4, <1>5 DEF Background

LEMMA TypeDie ==
    ASSUME TypeOK, Quit \/ Crash
    PROVE  TypeOK'
<1>1. Die /\ crashes' \in Nat
  BY DEF Quit, Crash, TypeOK
<1> QED
  BY <1>1, AskedType, DefaultType DEF TypeOK, Die, stored, Key

LEMMA TypeStep ==
    ASSUME TypeOK, Next
    PROVE  TypeOK'
<1>1. CASE Background
  BY <1>1, BackgroundEffect DEF TypeOK, stored, memory, counts
<1> QED
  BY <1>1, TypeOpen, TypeProceed, TypeUser, TypeDie DEF Next

\* Every variable keeps its type, however often the app is killed.
THEOREM AppTypes == Spec => []TypeOK
<1>1. TypeOK /\ UNCHANGED vars => TypeOK'
  BY DEF vars, stored, memory, scheduler, counts, TypeOK
<1> QED
  BY <1>1, TypeInit, TypeStep, PTL DEF Spec

----------------------------------------------------------------------------
\* The invariant's steps.  A kill is counted and never undone, so that a step that ends
\* with at most one kill began with at most one.

LEMMA KeyInit == Init => KeyInv /\ ~Running
BY DEF Init, KeyInv, Jobs, Stored, Unbroken, Opened, Whole, Torn, NoKey, HasKey, Running, NoCycle, CycleAt

\* The start of the app opens what the preferences say: the key in the keystore is theirs.
LEMMA OpenStep ==
    ASSUME TypeOK, KeyInv, Open
    PROVE  KeyInv' /\ cycle' = cycle
<1> USE DEF KeyInv, Jobs, Stored, Unbroken, Opened, Whole, Torn, NoKey, HasKey, stored, scheduler, counts
<1>1. CASE BootUninitialised
  BY <1>1 DEF BootUninitialised, initialise
<1>2. CASE BootLocked
  BY <1>2 DEF BootLocked, initialise
<1>3. CASE BootUnlocked
  BY <1>3 DEF BootUnlocked, initialise
<1> QED
  BY <1>1, <1>2, <1>3 DEF Open

\* What a tap does after its first step.
LEMMA ProceedStep ==
    ASSUME TypeOK, KeyInv, Proceed
    PROVE  KeyInv' /\ (cycle' = cycle \/ ~Running')
<1> USE DEF KeyInv, Jobs, Stored, Unbroken, Opened, Whole, Torn, NoKey, HasKey, stored, prefs, memory, scheduler, counts
<1>1. CASE Inject(TRUE) \/ Inject(FALSE) \/ LoadSettings \/ LoadThrows
  BY <1>1 DEF Inject, LoadSettings, LoadThrows
<1>2. CASE Start
  BY <1>2, AskedType DEF Start, Running
<1>3. ASSUME NEW x \in {"id", "wrapped"}, WritePreference(x)
      PROVE  KeyInv' /\ cycle' = cycle
  BY <1>3 DEF WritePreference, TypeOK
<1>4. ASSUME NEW x \in {"id", "wrapped"}, ErasePreference(x)
      PROVE  KeyInv' /\ cycle' = cycle
  BY <1>4 DEF ErasePreference, TypeOK
<1>5. CASE Created
  <2>1. /\ vaultId = job.wrapped.key /\ wrapped = job.wrapped /\ wrapped.passphrase \in told
        /\ vaultId # None /\ wrapped # None
    BY <1>5, NoneApart DEF Created, TypeOK, Wrapped
  <2> QED
    BY <1>5, <2>1 DEF Created
<1>6. CASE adopt
  BY <1>6 DEF adopt
<1>7. CASE Seed \/ Destroyed
  BY <1>7 DEF Seed, Destroyed
<1>8. CASE Locked
  BY <1>8 DEF Locked
<1>9. CASE Changed
  BY <1>9, NoneApart DEF Changed, TypeOK, Wrapped
<1> QED
  BY <1>1, <1>2, <1>3, <1>4, <1>5, <1>6, <1>7, <1>8, <1>9 DEF Proceed

\* What the user begins.
LEMMA UserStep ==
    ASSUME TypeOK, KeyInv, User
    PROVE  KeyInv' /\ (cycle' = cycle \/ ~Running')
<1> USE DEF KeyInv, Jobs, Stored, Unbroken, Opened, Whole, Torn, NoKey, HasKey, At, stored, prefs, memory, scheduler, counts
<1>1. ASSUME NEW p \in Passphrases, Create(p) PROVE KeyInv' /\ cycle' = cycle
  BY <1>1 DEF Create, Wrap
<1>2. ASSUME NEW p \in Passphrases, Unlock(p) PROVE KeyInv' /\ cycle' = cycle
  BY <1>2 DEF Unlock
<1>3. ASSUME NEW p \in Passphrases, NEW q \in Passphrases, ChangePassphrase(p, q)
      PROVE  KeyInv' /\ cycle' = cycle
  BY <1>3 DEF ChangePassphrase, Wrap
<1>4. ASSUME NEW b \in BOOLEAN, SetBiometricLock(b) PROVE KeyInv' /\ cycle' = cycle
  BY <1>4 DEF SetBiometricLock
<1>5. ASSUME NEW s \in Choices, SaveSettings(s) PROVE KeyInv' /\ (cycle' = cycle \/ ~Running')
  BY <1>5, AskedType DEF SaveSettings, Running
<1>7. CASE SyncNow
  BY <1>7, AskedType DEF SyncNow, Running
<1>6. CASE Lock \/ Destroy
  BY <1>6 DEF Lock, Destroy, lock
<1> QED
  BY <1>1, <1>2, <1>3, <1>4, <1>5, <1>6, <1>7 DEF User

\* The first kill leaves the preferences as they are: whole or torn, and torn ones have
\* no key in the keystore.
LEMMA DieStep ==
    ASSUME TypeOK, KeyInv, Quit \/ Crash, crashes' <= 1
    PROVE  KeyInv' /\ ~Running'
<1> USE DEF KeyInv, Jobs, Stored, Unbroken, Opened, Whole, Torn, NoKey, HasKey
<1>1. Die
  BY DEF Quit, Crash
<1>2. /\ UNCHANGED <<vaultId, wrapped, keystore, told>> /\ masterKey' = None /\ state' = "uninitialised"
      /\ pc' = "off" /\ ~Running'
  BY <1>1 DEF Die, stored, Running, NoCycle, CycleAt
<1>3. CASE Quit
  BY <1>2, <1>3 DEF Quit
<1>4. CASE Crash
  <2>1. crashes = 0 /\ crashes' = 1
    BY <1>4 DEF Crash, TypeOK
  <2>2. Whole \/ Torn
    BY <2>1
  <2>3. keystore # None => Whole /\ keystore = vaultId
    OBVIOUS
  <2> QED
    BY <1>2, <2>1, <2>2, <2>3
<1> QED
  BY <1>3, <1>4

\* The timer and the cycles.
LEMMA BackgroundStep ==
    ASSUME TypeOK, KeyInv, Running => cycle.key = cycle.id, Background
    PROVE  KeyInv' /\ (Running' => cycle'.key = cycle'.id)
<1>1. KeyInv'
  BY BackgroundEffect DEF KeyInv, Jobs, Stored, Unbroken, Opened, Whole, Torn, NoKey, HasKey, stored, memory,
     counts
<1>2. NoKey \/ HasKey
  BY DEF KeyInv, Opened, TypeOK
<1> QED
  BY <1>1, <1>2, BackgroundEffect DEF NoKey, HasKey, Running

\* Kills are counted.
LEMMA KillsCount ==
    ASSUME TypeOK, Next
    PROVE  crashes' = crashes \/ crashes' = crashes + 1
<1> USE DEF counts
<1>1. CASE Open
  BY <1>1 DEF Open, BootUninitialised, BootLocked, BootUnlocked, initialise
<1>2. CASE Proceed
  BY <1>2 DEF Proceed, Inject, LoadSettings, LoadThrows, Start, WritePreference, ErasePreference, Created,
     adopt, Seed, Locked, Destroyed, Changed
<1>3. CASE User
  BY <1>3 DEF User, Create, Unlock, ChangePassphrase, SetBiometricLock, SaveSettings,
     SyncNow, Lock, Destroy, lock
<1>4. CASE Background
  BY <1>4, BackgroundEffect
<1>5. CASE Quit \/ Crash
  BY <1>5 DEF Quit, Crash
<1> QED
  BY <1>1, <1>2, <1>3, <1>4, <1>5 DEF Next

----------------------------------------------------------------------------
\* The theorems.

LEMMA AppInvariant == Spec => []AppInv
<1>1. Init => AppInv
  BY TypeInit, KeyInit DEF AppInv
<1>2. AppInv /\ [Next]_vars => AppInv'
  <2> SUFFICES ASSUME AppInv, [Next]_vars PROVE AppInv'
    OBVIOUS
  <2>1. CASE UNCHANGED vars
    BY <2>1 DEF vars, stored, memory, scheduler, counts, AppInv, TypeOK, KeyInv, Jobs, Stored, Unbroken,
       Opened, Whole, Torn, NoKey, HasKey, Running
  <2>2. CASE Next
    <3>1. TypeOK'
      BY <2>2, TypeStep DEF AppInv
    <3>2. ASSUME crashes' <= 1
          PROVE  KeyInv' /\ (Running' => cycle'.key = cycle'.id)
      <4>1. crashes <= 1
        <5>1. crashes \in Nat /\ (crashes' = crashes \/ crashes' = crashes + 1)
          BY <2>2, KillsCount DEF AppInv, TypeOK
        <5> QED
          BY <3>2, <5>1
      <4>2. KeyInv /\ TypeOK /\ (Running => cycle.key = cycle.id)
        BY <4>1 DEF AppInv
      <4>3. CASE Open
        BY <4>2, <4>3, OpenStep DEF Running
      <4>4. CASE Proceed
        BY <4>2, <4>4, ProceedStep DEF Running
      <4>5. CASE User
        BY <4>2, <4>5, UserStep DEF Running
      <4>6. CASE Background
        BY <4>2, <4>6, BackgroundStep
      <4>7. CASE Quit \/ Crash
        BY <3>2, <4>2, <4>7, DieStep
      <4> QED
        BY <2>2, <4>3, <4>4, <4>5, <4>6, <4>7 DEF Next
    <3> QED
      BY <3>1, <3>2 DEF AppInv, Running
  <2> QED
    BY <2>1, <2>2
<1> QED
  BY <1>1, <1>2, PTL DEF Spec

\* The keystore, the preferences, the key in memory and the key of a cycle are those of
\* one vault, for any number of vaults created and erased here and any one kill.
THEOREM KeysBelongTogether == Spec => []KeysMatch
<1>1. AppInv => KeysMatch
  <2> SUFFICES ASSUME AppInv, crashes <= 1
               PROVE  /\ keystore # None => /\ vaultId = keystore
                                            /\ wrapped # None /\ wrapped.key = keystore
                      /\ pc = "rest" => (state = "unlocked" <=> masterKey # None)
                      /\ masterKey # None /\ vaultIdSignal # None => masterKey = vaultIdSignal
                      /\ Running => cycle.key = cycle.id
    BY DEF KeysMatch
  <2>1. KeyInv /\ (Running => cycle.key = cycle.id)
    BY DEF AppInv
  <2>2. keystore # None => vaultId = keystore /\ wrapped # None /\ wrapped.key = keystore
    BY <2>1 DEF KeyInv, Stored, Whole
  <2>3. pc = "rest" => (state = "unlocked" <=> masterKey # None)
    BY <2>1 DEF KeyInv, Opened, NoKey, HasKey, Whole
  <2>4. NoKey \/ HasKey
    BY <2>1 DEF KeyInv, Opened, AppInv, TypeOK
  <2> QED
    BY <2>1, <2>2, <2>3, <2>4 DEF NoKey, HasKey
<1> QED
  BY <1>1, AppInvariant, PTL

\* A locked vault opens with the passphrase the user was told last.
THEOREM PassphraseOpens == Spec => []KnownPassphraseOpens
<1>1. AppInv => KnownPassphraseOpens
  BY DEF AppInv, KeyInv, Opened, Whole, KnownPassphraseOpens
<1> QED
  BY <1>1, AppInvariant, PTL
=============================================================================
