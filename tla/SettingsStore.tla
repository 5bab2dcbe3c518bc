---------------------------- MODULE SettingsStore ----------------------------
(* The application's settings and radio profiles: AppSettings keeps every    *)
(* value in memory and rewrites one file, at once or 250 ms after a slider    *)
(* has rested; RadioProfileStore keeps the profiles in one of those values,   *)
(* each password encrypted under a key file of its own and decrypted only     *)
(* when its profile is used; ConfigurationManager copies the file away,       *)
(* writes a copy back behind AppSettings and restarts the program.            *)
(*                                                                           *)
(* Writes may fail, the process may crash, and between two runs the settings  *)
(* file may be damaged and the key file lost, cut short or made unreadable.   *)
(* A value is a number, 0 for "not set"; a cipher is the key it was made      *)
(* under and the password it hides; salts, and failures of the cryptographic  *)
(* library, are left out.  Of the other immediate settings there is one, the  *)
(* window's place, and of the deferred ones the volume.                       *)
EXTENDS Integers

CONSTANTS
    Ids,        \* profile ids
    Passwords,  \* passwords an operator types, positive numbers
    Levels,     \* positions of the volume slider, positive numbers
    Places,     \* positions of the window, positive numbers
    KeyFaults,  \* what may become of the key file: "lost", "short", "locked"
    MaxActs,    \* operator's actions
    MaxFaults,  \* damaged files and crashes
    MaxErrors   \* writes that fail

StoreAssumption ==
    /\ Passwords \cup Levels \cup Places \cup Ids \subseteq Nat \ {0}
    /\ KeyFaults \subseteq {"lost", "short", "locked"}
    /\ MaxActs \in Nat /\ MaxFaults \in Nat /\ MaxErrors \in Nat

VARIABLES
    app,    \* AppSettings of the running process, and the process that will follow a restart
    store,  \* RadioProfileStore
    disk,   \* settings file, backup copy and key file
    saved,  \* ghost: the password each profile was last saved with, "" as 0
    spent   \* bounds: the operator's actions, faults and write errors so far

vars == <<app, store, disk, saved, spent>>

-----------------------------------------------------------------------------
NoCipher == [key |-> 0, plain |-> 0]
NoEntry == [in |-> FALSE, name |-> 0, cipher |-> NoCipher]
NoProfiles == [last |-> 0, list |-> [id \in Ids |-> NoEntry]]
NoValues == [level |-> 0, place |-> 0, profiles |-> NoProfiles]
NoProfile == [in |-> FALSE, name |-> 0, password |-> 0]

\* RadioProfileStore::load: passwords stay encrypted until a profile is used.
Loaded(values) ==
    [profiles   |-> [id \in Ids |-> [in |-> values.profiles.list[id].in,
                                     name |-> values.profiles.list[id].name, password |-> 0]],
     last       |-> values.profiles.last,
     encrypted  |-> [id \in Ids |-> values.profiles.list[id].cipher],
     unreadable |-> [id \in Ids |-> NoCipher],
     prints     |-> [id \in Ids |-> NoCipher]]

\* AppSettings::load: a file that cannot be parsed is renamed, and while that
\* fails nothing may be written.
Starting(renamed) ==
    IF disk.file = "damaged" /\ ~renamed
    THEN [up |-> TRUE, values |-> NoValues, blocked |-> TRUE, pending |-> FALSE,
          leaving |-> FALSE, heir |-> FALSE, inherited |-> NoValues]
    ELSE [up |-> TRUE, values |-> IF disk.file = "whole" THEN disk.held ELSE NoValues,
          blocked |-> FALSE, pending |-> FALSE,
          leaving |-> FALSE, heir |-> FALSE, inherited |-> NoValues]

Down == [up |-> FALSE, values |-> NoValues, blocked |-> FALSE, pending |-> FALSE,
         leaving |-> FALSE, heir |-> FALSE, inherited |-> NoValues]

Init ==
    /\ app = [Down EXCEPT !.up = TRUE]
    /\ store = Loaded(NoValues)
    /\ disk = [file |-> "none", held |-> NoValues, copied |-> FALSE, backup |-> NoValues,
               kept |-> 0, damaged |-> 0, behind |-> FALSE,
               key |-> 0, opens |-> TRUE, made |-> 0, lost |-> {}]
    /\ saved = [id \in Ids |-> 0]
    /\ spent = [acts |-> 0, faults |-> 0, errors |-> 0]

Act == spent.acts < MaxActs /\ app.up /\ ~app.leaving
Fails(n) == spent.errors + n <= MaxErrors

-----------------------------------------------------------------------------
(* Writing.                                                                  *)

\* AppSettings::writeFile: the whole map, in one replacement of the file.
Written(d, values) == [d EXCEPT !.file = "whole", !.held = values, !.behind = FALSE]

\* AppSettings::save: a file that was written also settles a deferred change.
Settled(values) == [app EXCEPT !.values = values, !.pending = FALSE]

\* Mutant: a value whose write failed stays.
setValueKept(d, values, ok) ==
    IF values = app.values THEN app' = app /\ disk' = d
    ELSE IF ok /\ ~app.blocked THEN app' = Settled(values) /\ disk' = Written(d, values)
    ELSE app' = [app EXCEPT !.values = values] /\ disk' = d

\* AppSettings::setValue: nothing to do for an equal value, and a write that
\* fails takes the value back.
setValue(d, values, ok) ==
    IF values = app.values THEN app' = app /\ disk' = d
    ELSE IF ok /\ ~app.blocked THEN app' = Settled(values) /\ disk' = Written(d, values)
    ELSE app' = app /\ disk' = d

Stored(values, ok) == values = app.values \/ (ok /\ ~app.blocked)

\* readOrCreateProfileKey: a key that is too short is set aside, and a new one
\* is made wherever none can be read.
readOrCreateProfileKey ==
    IF disk.key > 0 /\ disk.opens THEN disk
    ELSE [disk EXCEPT !.key = disk.made + 1, !.made = @ + 1, !.opens = TRUE]

\* The password's cipher in the file: a password that was not decrypted keeps
\* the cipher it has, and so does one whose fingerprint is that of its cipher.
CipherFor(st, id, key) ==
    LET password == st.profiles[id].password
        print == [key |-> key, plain |-> password]
    IN  IF password = 0
        THEN IF st.unreadable[id] # NoCipher THEN st.unreadable[id] ELSE st.encrypted[id]
        ELSE IF st.prints[id] = print /\ st.encrypted[id] # NoCipher THEN st.encrypted[id]
        ELSE print

Encoded(st, key) ==
    [last |-> st.last,
     list |-> [id \in Ids |-> IF st.profiles[id].in
                              THEN [in |-> TRUE, name |-> st.profiles[id].name,
                                    cipher |-> CipherFor(st, id, key)]
                              ELSE NoEntry]]

Typed(st) == \E id \in Ids : st.profiles[id].in /\ st.profiles[id].password > 0

\* RadioProfileStore::save; "back" is the store a failed save leaves.
save(st, back, ok, keeps) ==
    LET d == IF Typed(st) THEN readOrCreateProfileKey ELSE disk
        profiles == Encoded(st, d.key)
        values == [app.values EXCEPT !.profiles = profiles]
    IN  /\ setValue(d, values, ok)
        /\ IF Stored(values, ok)
           THEN /\ store' = [st EXCEPT
                      !.encrypted = [id \in Ids |-> profiles.list[id].cipher],
                      !.prints = [id \in Ids |->
                          IF st.profiles[id].in /\ st.profiles[id].password > 0
                          THEN [key |-> d.key, plain |-> st.profiles[id].password]
                          ELSE NoCipher]]
                /\ saved' = keeps
           ELSE store' = back /\ saved' = saved
        /\ ok \/ Fails(1)
        /\ spent' = [spent EXCEPT !.acts = @ + 1, !.errors = IF ok THEN @ ELSE @ + 1]

-----------------------------------------------------------------------------
(* The operator and the radio chooser.                                       *)

addProfile(id, password, ok) ==
    /\ Act /\ ~store.profiles[id].in
    /\ save([store EXCEPT !.profiles[id] = [in |-> TRUE, name |-> 1, password |-> password]],
            store, ok, [saved EXCEPT ![id] = password])

\* profileForUse: an encrypted password is decrypted when its profile is
\* selected or connected to, and one that cannot be is remembered as such.
Used(st, d, id) ==
    LET cipher == st.encrypted[id]
    IN  IF st.profiles[id].password # 0 \/ cipher = NoCipher \/ st.unreadable[id] # NoCipher THEN st
        ELSE IF cipher.key = d.key
        THEN [st EXCEPT !.profiles[id].password = cipher.plain, !.prints[id] = cipher]
        ELSE [st EXCEPT !.unreadable[id] = cipher]

profileForUse(id) ==
    /\ app.up /\ ~app.leaving /\ store.profiles[id].in
    /\ store.profiles[id].password = 0 /\ store.encrypted[id] # NoCipher
    /\ store.unreadable[id] = NoCipher
    /\ disk' = readOrCreateProfileKey
    /\ store' = Used(store, disk', id)
    /\ UNCHANGED <<app, saved, spent>>

\* The form shows the selected profile, its password decrypted or left empty.
Shown(id) ==
    store.profiles[id].in /\
    (store.profiles[id].password # 0 \/ store.encrypted[id] = NoCipher
       \/ store.unreadable[id] # NoCipher)

\* Mutant: erasing a password leaves its cipher behind.
UpdatedCipherKept(id, name, password) ==
    [store EXCEPT !.profiles[id] = [in |-> TRUE, name |-> name, password |-> password],
                  !.unreadable[id] = IF password # 0 THEN NoCipher ELSE @]

\* The store as updateProfile hands it to save: a password typed anew settles
\* an unreadable one, and one that was erased takes its cipher along.
Updated(id, name, password) ==
    LET st == [store EXCEPT !.profiles[id] = [in |-> TRUE, name |-> name, password |-> password]]
    IN  IF password # 0 THEN [st EXCEPT !.unreadable[id] = NoCipher]
        ELSE IF store.profiles[id].password # 0
        THEN [st EXCEPT !.encrypted[id] = NoCipher, !.prints[id] = NoCipher]
        ELSE st

updateProfile(id, name, password, ok) ==
    /\ Act /\ Shown(id)
    /\ name # store.profiles[id].name \/ password # store.profiles[id].password
    /\ save(Updated(id, name, password), store, ok,
            IF password = 0 /\ store.profiles[id].password = 0 THEN saved
            ELSE [saved EXCEPT ![id] = password])

Removed(id) ==
    [store EXCEPT !.profiles[id] = NoProfile, !.unreadable[id] = NoCipher,
                  !.last = IF @ = id THEN 0 ELSE @]

removeProfile(id, ok) ==
    /\ Act /\ store.profiles[id].in
    /\ save(Removed(id), store, ok, [saved EXCEPT ![id] = 0])

setLastProfileId(id, ok) ==
    /\ Act /\ store.profiles[id].in /\ store.last # id
    /\ save([store EXCEPT !.last = id], store, ok, saved)

\* The volume slider: remembered now, written when it has rested.
setValueDeferred(level) ==
    /\ Act /\ app.values.level # level
    /\ app' = [app EXCEPT !.values.level = level, !.pending = TRUE]
    /\ spent' = [spent EXCEPT !.acts = @ + 1]
    /\ UNCHANGED <<store, disk, saved>>

\* The deferred save timer; a failed save starts it again.
DeferredSave(ok) ==
    /\ app.up /\ app.pending
    /\ IF ok /\ ~app.blocked
       THEN app' = Settled(app.values) /\ disk' = Written(disk, app.values)
       ELSE UNCHANGED <<app, disk>>
    /\ ok \/ Fails(1)
    /\ spent' = [spent EXCEPT !.errors = IF ok THEN @ ELSE @ + 1]
    /\ UNCHANGED <<store, saved>>

\* ConfigurationManager::backupConfiguration saves, then copies the file.
backupConfiguration(ok) ==
    /\ Act /\ (ok \/ Fails(1))
    /\ IF ok /\ ~app.blocked
       THEN /\ app' = Settled(app.values)
            /\ disk' = [Written(disk, app.values) EXCEPT !.copied = TRUE, !.backup = app.values]
       ELSE UNCHANGED <<app, disk>>
    /\ spent' = [spent EXCEPT !.acts = @ + 1, !.errors = IF ok THEN @ ELSE @ + 1]
    /\ UNCHANGED <<store, saved>>

\* The file is replaced or removed behind AppSettings, and the program starts
\* its successor; where that does not start, it runs on.
Replaced(d, started) ==
    /\ disk' = [d EXCEPT !.behind = TRUE, !.kept = IF disk.file = "damaged" THEN @ + 1 ELSE @]
    /\ app' = [app EXCEPT !.leaving = started]
    /\ spent' = [spent EXCEPT !.acts = @ + 1]
    /\ UNCHANGED <<store, saved>>

restoreConfigurationAndRestart(started) ==
    /\ Act /\ disk.copied
    /\ Replaced([disk EXCEPT !.file = "whole", !.held = disk.backup], started)

resetConfigurationAndRestart(started) ==
    /\ Act
    /\ Replaced([disk EXCEPT !.file = "none", !.held = NoValues], started)

-----------------------------------------------------------------------------
(* The process.                                                              *)

\* The successor reads the file while its predecessor is still closing.
HeirLoads ==
    /\ app.up /\ app.leaving /\ ~app.heir /\ disk.file # "damaged"
    /\ app' = [app EXCEPT !.heir = TRUE,
                          !.inherited = IF disk.file = "whole" THEN disk.held ELSE NoValues]
    /\ UNCHANGED <<store, disk, saved, spent>>

\* The passwords a process starts with are those of the values it has read.
PlainOf(values) == [id \in Ids |-> values.profiles.list[id].cipher.plain]

\* closeEvent saves the window's place, and the destructor what is pending;
\* either rewrites the file, also when the successor has read it already.
Quit(place, ok) ==
    LET values == [app.values EXCEPT !.place = place]
        writes == ok /\ ~app.blocked /\ (values # app.values \/ app.pending)
    IN  /\ app.up /\ (ok \/ Fails(1))
        /\ disk' = LET d == IF writes THEN Written(disk, values) ELSE disk
                   IN  [d EXCEPT !.behind = app.heir /\ d.held # app.inherited]
        /\ IF app.heir
           THEN /\ app' = [Down EXCEPT !.up = TRUE, !.values = app.inherited]
                /\ store' = Loaded(app.inherited) /\ saved' = PlainOf(app.inherited)
           ELSE app' = Down /\ UNCHANGED <<store, saved>>
        /\ spent' = [spent EXCEPT !.errors = IF ok THEN @ ELSE @ + 1]

Crash ==
    /\ app.up /\ spent.faults < MaxFaults
    /\ app' = Down
    /\ spent' = [spent EXCEPT !.faults = @ + 1]
    /\ UNCHANGED <<store, disk, saved>>

Launch(renamed) ==
    /\ ~app.up /\ spent.acts < MaxActs
    /\ renamed \/ Fails(1)
    /\ app' = Starting(renamed)
    /\ store' = Loaded(app'.values)
    /\ saved' = PlainOf(app'.values)
    /\ disk' = IF disk.file = "damaged" /\ renamed
               THEN [disk EXCEPT !.file = "none", !.held = NoValues, !.kept = @ + 1, !.behind = FALSE]
               ELSE [disk EXCEPT !.behind = FALSE]
    /\ spent' = [spent EXCEPT !.errors = IF renamed THEN @ ELSE @ + 1]

Damage ==
    /\ ~app.up /\ spent.faults < MaxFaults /\ disk.file = "whole"
    /\ disk' = [disk EXCEPT !.file = "damaged", !.held = NoValues, !.damaged = @ + 1]
    /\ spent' = [spent EXCEPT !.faults = @ + 1]
    /\ UNCHANGED <<app, store, saved>>

\* The key file disappears, is cut short, or can no longer be opened.
KeyFault(fault) ==
    /\ spent.faults < MaxFaults /\ disk.key > 0 /\ disk.opens
    /\ fault = "locked" => ~app.up   \* a running process keeps the key it has read
    /\ disk' = IF fault = "locked" THEN [disk EXCEPT !.opens = FALSE]
               ELSE [disk EXCEPT !.key = 0, !.lost = @ \cup {disk.key}]
    /\ spent' = [spent EXCEPT !.faults = @ + 1]
    /\ UNCHANGED <<app, store, saved>>

Next ==
    \/ \E id \in Ids, ok \in BOOLEAN :
          \/ \E password \in Passwords \cup {0} :
                \/ addProfile(id, password, ok)
                \/ \E name \in 1..2 : updateProfile(id, name, password, ok)
          \/ removeProfile(id, ok)
          \/ setLastProfileId(id, ok)
    \/ \E id \in Ids : profileForUse(id)
    \/ \E level \in Levels : setValueDeferred(level)
    \/ \E ok \in BOOLEAN :
          \/ DeferredSave(ok)
          \/ backupConfiguration(ok)
          \/ \E place \in Places : Quit(place, ok)
          \/ Launch(ok)
          \/ restoreConfigurationAndRestart(ok)
          \/ resetConfigurationAndRestart(ok)
    \/ HeirLoads
    \/ Crash
    \/ Damage
    \/ \E fault \in KeyFaults : KeyFault(fault)

Spec == Init /\ [][Next]_vars

-----------------------------------------------------------------------------
Ciphers == [key : 0..MaxFaults + 1, plain : Passwords \cup {0}]

\* The variables keep their types.
TypeOK ==
    /\ app.values.level \in Levels \cup {0} /\ app.values.place \in Places \cup {0}
    /\ {app.up, app.blocked, app.pending, app.leaving, app.heir} \subseteq BOOLEAN
    /\ app.leaving => app.up
    /\ \A id \in Ids : /\ store.profiles[id].password \in Passwords \cup {0}
                       /\ {store.encrypted[id], store.unreadable[id], store.prints[id]} \subseteq Ciphers
    /\ store.last \in Ids \cup {0}
    /\ disk.file \in {"none", "whole", "damaged"} /\ disk.key \in 0..MaxFaults + 1
    /\ saved \in [Ids -> Passwords \cup {0}]

\* What the running program shows is what a crash now would leave on the disk:
\* every change that was not refused is in the file, and none that was, but for
\* a slider still moving and for a file that was replaced behind the program.
FileIsMemory ==
    app.up /\ ~app.pending /\ ~disk.behind /\ ~app.blocked =>
        app.values = disk.held /\ disk.file # "damaged"

\* The chooser's profiles are those of the settings, whatever save failed.
ChooserIsSettings ==
    app.up => /\ store.last = app.values.profiles.last
              /\ \A id \in Ids : /\ store.profiles[id].in = app.values.profiles.list[id].in
                                 /\ store.profiles[id].name = app.values.profiles.list[id].name

\* However often the profiles are rewritten, under whichever key, the file has
\* for each profile the password its operator saved last: one that could not be
\* decrypted is kept, one that was erased does not return.
PasswordsKept ==
    app.up => /\ PlainOf(app.values) = saved
              /\ \A id \in Ids : store.profiles[id].password # 0 => store.profiles[id].password = saved[id]

\* No saved password is behind a key that the program itself has thrown away.
PasswordsReadable ==
    app.up => \A id \in Ids : LET cipher == app.values.profiles.list[id].cipher
                              IN  cipher # NoCipher => cipher.key \in disk.lost \cup {disk.key}

\* A settings file that could not be read is set aside ("kept") or goes when the
\* operator restores or resets; it is never overwritten.
DamagedKept == disk.damaged = disk.kept + IF disk.file = "damaged" THEN 1 ELSE 0

\* A configuration that was restored or reset is what the next process runs
\* with.  Not checked: the closing window overwrites it (see README).
RestoreTakesEffect ==
    [][app.heir /\ ~app'.leaving /\ app'.up => disk'.held = app'.values]_vars
=============================================================================
