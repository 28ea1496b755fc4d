------------------------------- MODULE Settings -------------------------------
(***************************************************************************)
(* The dynamic settings: seed_default_dynamic_settings of                  *)
(* tca/storage/settings_seed.py, run at every start of a process, and      *)
(* put_setting of tca/api/routes/settings.py, over the statements of       *)
(* tca/storage/settings_repo.py.                                           *)
(*                                                                         *)
(* Granularity.  One transaction per step.  put_setting is one job of its  *)
(* process' writer queue, and the seeding and the requests of another      *)
(* process come in between.  It updates the row and would create one that  *)
(* is missing.  That never happens: the keys it accepts are those that are *)
(* seeded before the process serves, and no statement deletes them.        *)
(***************************************************************************)
EXTENDS Naturals, Sequences

CONSTANTS
  Keys,     \* DYNAMIC_SETTINGS_DEFAULTS, the keys in their order
  Procs,    \* the processes on one database
  Values,   \* what users store
  Default,  \* the seeded default of a key
  Absent    \* no row, no request

VARIABLES
  setting,  \* settings: index of a key |-> value_json
  seeded,   \* process |-> how many keys its startup is through with
  put,      \* process |-> the write of put_setting its queue executes
  stored    \* history: what the last successful put_setting wrote

settingsVars == <<setting, seeded, put, stored>>

Index == 1 .. Len(Keys)
Put == [key : Index, value : Values]

SettingsTypeOK ==
  /\ setting \in [Index -> Values \cup {Default, Absent}]
  /\ seeded \in [Procs -> 0 .. Len(Keys)]
  /\ put \in [Procs -> Put \cup {Absent}]
  /\ stored \in [Index -> Values \cup {Absent}]

SettingsInit ==
  /\ setting = [k \in Index |-> Absent]
  /\ seeded = [p \in Procs |-> 0]
  /\ put = [p \in Procs |-> Absent]
  /\ stored = [k \in Index |-> Absent]

-----------------------------------------------------------------------------
(* SettingsRepository: one transaction each *)

\* create() of an existing key raises SettingAlreadyExistsError.
Exists(k) == setting[k] # Absent

Store(k, v) == setting' = [setting EXCEPT ![k] = v]

\* get_by_key() with the fallback of _resolve_effective_setting_value.
Effective(k) == IF Exists(k) THEN setting[k] ELSE Default

-----------------------------------------------------------------------------
(* Seeding *)

Seeding(p) == seeded[p] < Len(Keys)

\* Variant: the default is stored with upsert().
SeedOver(p) ==
  /\ Seeding(p)
  /\ Store(seeded[p] + 1, Default)
  /\ seeded' = [seeded EXCEPT ![p] = @ + 1]
  /\ UNCHANGED <<put, stored>>

\* The next default is inserted unless its key is there.
Seed(p) ==
  /\ Seeding(p)
  /\ IF Exists(seeded[p] + 1) THEN UNCHANGED setting ELSE Store(seeded[p] + 1, Default)
  /\ seeded' = [seeded EXCEPT ![p] = @ + 1]
  /\ UNCHANGED <<put, stored>>

\* The process ends; its next start seeds again.
Forget(p) ==
  /\ seeded' = [seeded EXCEPT ![p] = 0]
  /\ put' = [put EXCEPT ![p] = Absent]
  /\ UNCHANGED <<setting, stored>>

-----------------------------------------------------------------------------
(* put_setting *)

PutSubmit(p, k, v) ==
  /\ put[p] = Absent
  /\ put' = [put EXCEPT ![p] = [key |-> k, value |-> v]]
  /\ UNCHANGED <<setting, seeded, stored>>

\* update() returns the row and the request is answered.  A request without a row
\* would stay in the queue, and ShutdownEnds of Deployment fail.
PutUpdate(p) ==
  /\ put[p] # Absent
  /\ Exists(put[p].key)
  /\ Store(put[p].key, put[p].value)
  /\ stored' = [stored EXCEPT ![put[p].key] = put[p].value]
  /\ put' = [put EXCEPT ![p] = Absent]
  /\ UNCHANGED seeded

-----------------------------------------------------------------------------
(* Properties *)

\* What a user stored is what is read until a user stores something else: no
\* start of a process, however it interleaves with put_setting, puts a default
\* back.
UserValueStays ==
  \A k \in Index : stored[k] # Absent => Effective(k) = stored[k]
===============================================================================
