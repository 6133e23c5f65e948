------------------------------ MODULE Settings ------------------------------
(***************************************************************************)
(* What an administrator set, and what each process believes of it         *)
(* (config/store.py, config/secrets.py, api/routers/settings.py).          *)
(*                                                                         *)
(* The table app_settings holds overrides; every process keeps the rows it *)
(* read last for CacheTTL.  A thread that finds them too old reads the     *)
(* table and keeps what it read, dated when it set out to.  A request that *)
(* changes a setting resolves it, writes it, drops its process's rows,     *)
(* resolves it again in its own transaction, and commits when answered.    *)
(*                                                                         *)
(* Time is relative: `age` and `since` count up from when the rows were    *)
(* asked for.  The trail of changes is a log, and is left out.             *)
(***************************************************************************)
EXTENDS Naturals

CONSTANTS SettingKeys, Secrets,  \* what the registry declares, and which are secret
          ReadOnly,              \* those no console may change
          SettingValues, Unset,
          Usable,                \* the values of each key's type and range; of a secret,
                                 \* those a configured master key opens
          Environment, Default,  \* the layers beneath, by key
          Threads, Processes, ProcessOf,
          CacheTTL,
          MaxChanges             \* the bound on changes asked for

ASSUME SettingsAssumption ==
    /\ Secrets \subseteq SettingKeys /\ ReadOnly \subseteq SettingKeys
    /\ Unset \notin SettingValues
    /\ Usable \in [SettingKeys -> SUBSET SettingValues]
    /\ ProcessOf \in [Threads -> Processes]
    /\ CacheTTL \in Nat \ {0} /\ MaxChanges \in Nat

VARIABLES override, \* app_settings: the committed value of each key, or Unset
          kept,     \* each process's _CACHE
          thread,   \* what each thread does, and how far it is
          reading,  \* how far its reading of the table has come
          gone,     \* for each key and value, how long ago it was last in force
          changes   \* changes asked for so far

settingsVars == <<override, kept, thread, reading, gone, changes>>

RowValues == SettingValues \cup {Unset}
Free == [step |-> "free"]
NotReading == [step |-> "none"]
Older(n) == IF n < CacheTTL THEN n + 1 ELSE n

\* resolve: the console, then the environment, then the default. A secret that cannot be
\* opened is passed over; any other unusable value stands for the default.
Effective(k, value) ==
    LET Coerced(v) == IF v \in Usable[k] THEN v ELSE Default[k]
        stored == value # Unset /\ k \notin ReadOnly /\ (k \in Secrets => value \in Usable[k])
    IN IF stored THEN Coerced(value)
       ELSE IF Environment[k] # Unset THEN Coerced(Environment[k]) ELSE Default[k]

\* What a transaction sees: the committed rows under its own change.
Writing(k) == {t \in Threads : thread[t].step \in {"written", "answered"} /\ thread[t].key = k}
Seen(t) == [k \in SettingKeys |-> IF t \in Writing(k) THEN thread[t].value ELSE override[k]]

\* Rows of an earlier registry, or sealed with a master key since replaced, may be stored.
SettingsInit ==
    /\ override \in {rows \in [SettingKeys -> RowValues] :
                        \A k \in SettingKeys : rows[k] \notin Usable[k]}
    /\ kept = [p \in Processes |-> [rows |-> override, age |-> CacheTTL]]
    /\ thread = [t \in Threads |-> Free]
    /\ reading = [t \in Threads |-> NotReading]
    /\ gone = [k \in SettingKeys |-> [x \in RowValues |-> IF x = override[k] THEN 0 ELSE CacheTTL]]
    /\ changes = 0

----------------------------------------------------------------------------
(* Somebody resolves a setting: a request, a job, or a change before and   *)
(* after it writes.                                                        *)

Load(t) ==
    /\ thread[t] = Free
    /\ thread' = [thread EXCEPT ![t] = [step |-> "loads"]]
    /\ UNCHANGED <<override, kept, reading, gone, changes>>

Asking(t) == thread[t].step \in {"loads", "asked", "written"} /\ reading[t] = NotReading

Answered(t) ==
    CASE thread[t].step = "loads" -> Free
      [] thread[t].step = "asked" -> [thread[t] EXCEPT !.step = "told"]
      [] thread[t].step = "written" -> [thread[t] EXCEPT !.step = "answered"]

\* _overrides: from the rows of the process, while they are young enough.
Hit(t) ==
    /\ Asking(t) /\ kept[ProcessOf[t]].age < CacheTTL
    /\ thread' = [thread EXCEPT ![t] = Answered(t)]
    /\ UNCHANGED <<override, kept, reading, gone, changes>>

\* They are not: the time is noted, then the table read, then its rows kept.
Miss(t) ==
    /\ Asking(t) /\ kept[ProcessOf[t]].age = CacheTTL
    /\ reading' = [reading EXCEPT ![t] = [step |-> "select", since |-> 0]]
    /\ UNCHANGED <<override, kept, thread, gone, changes>>

Select(t) ==
    /\ reading[t].step = "select"
    /\ reading' = [reading EXCEPT ![t] = [step |-> "keep", since |-> @.since, rows |-> Seen(t)]]
    /\ UNCHANGED <<override, kept, thread, gone, changes>>

\* The table cannot be read: the last known rows answer, however old.
LastKnown(t) ==
    /\ reading[t].step = "select"
    /\ reading' = [reading EXCEPT ![t] = NotReading]
    /\ thread' = [thread EXCEPT ![t] = Answered(t)]
    /\ UNCHANGED <<override, kept, gone, changes>>

KeepAged(t, age) ==
    /\ reading[t].step = "keep"
    /\ kept' = [kept EXCEPT ![ProcessOf[t]] = [rows |-> reading[t].rows, age |-> age]]
    /\ reading' = [reading EXCEPT ![t] = NotReading]
    /\ thread' = [thread EXCEPT ![t] = Answered(t)]
    /\ UNCHANGED <<override, gone, changes>>

\* Faulty variant: the rows are dated when they are kept.
KeepDatedLate(t) == KeepAged(t, 0)

Keep(t) == reading[t].step = "keep" /\ KeepAged(t, reading[t].since)

----------------------------------------------------------------------------
(* A change of a setting: save_setting, or revert_setting with Unset.      *)

Change(t, k, value) ==
    /\ thread[t] = Free /\ changes < MaxChanges
    /\ value = Unset \/ (k \notin ReadOnly /\ value \in Usable[k])
    /\ changes' = changes + 1
    /\ thread' = [thread EXCEPT ![t] = [step |-> "asked", key |-> k, value |-> value]]
    /\ UNCHANGED <<override, kept, reading, gone>>

\* The row is looked for. Clearing what is not set writes nothing: it is only resolved again.
Look(t) ==
    /\ thread[t].step = "told"
    /\ LET there == override[thread[t].key] # Unset IN
       thread' = [thread EXCEPT ![t] =
                    IF thread[t].value = Unset /\ ~there THEN [step |-> "loads"]
                    ELSE [step |-> "found", key |-> @.key, value |-> @.value, there |-> there]]
    /\ UNCHANGED <<override, kept, reading, gone, changes>>

\* The flush waits for whoever writes the same row. A row that came or went since it was
\* looked for refuses it, save a deletion of what is already gone.
Flush(t) ==
    /\ thread[t].step = "found" /\ Writing(thread[t].key) = {}
    /\ LET k == thread[t].key  value == thread[t].value
           refused == value # Unset /\ thread[t].there # (override[k] # Unset)
       IN IF refused
          THEN /\ thread' = [thread EXCEPT ![t] = Free]
               /\ UNCHANGED <<kept, gone>>
          ELSE /\ thread' = [thread EXCEPT ![t] = [step |-> "written", key |-> k, value |-> value]]
               /\ kept' = [kept EXCEPT ![ProcessOf[t]].age = CacheTTL]
               /\ gone' = [gone EXCEPT ![k][value] = 0]
    /\ UNCHANGED <<override, reading, changes>>

SettingCommitted(t) ==
    /\ thread[t].step = "answered"
    /\ override' = [override EXCEPT ![thread[t].key] = thread[t].value]
    /\ thread' = [thread EXCEPT ![t] = Free]
    /\ UNCHANGED <<kept, reading, gone, changes>>

\* What the process kept of the change stays with it.
SettingRolledBack(t) ==
    /\ thread[t].step = "answered"
    /\ thread' = [thread EXCEPT ![t] = Free]
    /\ UNCHANGED <<override, kept, reading, gone, changes>>

TimePasses ==
    /\ kept' = [p \in Processes |-> [kept[p] EXCEPT !.age = Older(@)]]
    /\ reading' = [t \in Threads |-> IF reading[t] = NotReading THEN NotReading
                                     ELSE [reading[t] EXCEPT !.since = Older(@)]]
    /\ gone' = [k \in SettingKeys |-> [x \in RowValues |->
                  IF x \in {override[k]} \cup {thread[t].value : t \in Writing(k)} THEN 0
                  ELSE Older(gone[k][x])]]
    /\ UNCHANGED <<override, thread, changes>>

SettingsNext ==
    \/ \E t \in Threads :
         \/ Load(t) \/ Hit(t) \/ Miss(t) \/ Select(t) \/ LastKnown(t) \/ Keep(t)
         \/ \E k \in SettingKeys, value \in RowValues : Change(t, k, value)
         \/ Look(t) \/ Flush(t) \/ SettingCommitted(t) \/ SettingRolledBack(t)
    \/ TimePasses

SettingsSpec == SettingsInit /\ [][SettingsNext]_settingsVars

----------------------------------------------------------------------------
\* A change reaches every process within the life of its rows: what the kept rows answer,
\* while they are used, is what was in force, or being written, no longer ago than their
\* age. Slow readers, other processes and rolled back changes included (store.py _overrides).
KeptIsRecent ==
    \A p \in Processes, k \in SettingKeys :
        kept[p].age < CacheTTL =>
            \E x \in RowValues : /\ gone[k][x] <= kept[p].age
                                 /\ Effective(k, x) = Effective(k, kept[p].rows[k])
=============================================================================
