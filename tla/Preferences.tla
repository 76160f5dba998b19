---------------------------- MODULE Preferences ----------------------------
(***************************************************************************)
(* The preference cache of a widget (src/src/shell-runtime.js): the rows   *)
(* of the settings collection, held beside a mark that says up to which    *)
(* settings event they are known.  Walks of the widget's own collection    *)
(* and probes only compare the mark; a read of the settings replaces the   *)
(* rows; an answered setPref merges its own row into them.  The model is   *)
(* one app that is not the settings app, and its rows of the settings.     *)
(***************************************************************************)
EXTENDS Integers, FiniteSets, FiniteSetsExt

CONSTANTS
  Keys,       \* names of preferences
  MaxForeign, \* bound on the adds and updates of other actors
  MaxRemoved, \* bound on their deletes
  MaxSets,    \* bound on setPref calls
  MaxFaults,  \* bound on reads and calls whose answer is lost
  None

VARIABLES
  seq,     \* settings_version: the seq of the last settings event
  rows,    \* the settings: [id, key, version], the id being the seq of the add
  cache,   \* prefItems
  mark,    \* lastSettingsVersion, None while undefined
  held,    \* state.version, as far as settings events move it
  phase,   \* "loading" | "warming" | "ready"
  read,    \* syncPrefs: [at |-> "idle" | "asked" | "answered", seq, rows]
  queued,  \* prefSyncQueued
  timer,   \* prefSyncTimer is set
  walk,    \* a walk of the app's collection: None or its stamp
  probe,   \* an answered get_data_version: None or its settings_version
  calls,   \* setPref calls under way: [n, key, row, ack]
  foreign, removed, sets, faults

ledger == <<seq, rows>>
prefs == <<cache, mark>>
reading == <<read, queued, timer>>
shell == <<held, phase, walk, probe>>
counts == <<foreign, removed, sets, faults>>
vars == <<ledger, prefs, reading, shell, calls, counts>>

----------------------------------------------------------------------------
\* The store.  A row's version is the seq of the last event that touched it.
AddRow(k) ==
  /\ seq' = seq + 1
  /\ rows' = rows \cup {[id |-> seq + 1, key |-> k, version |-> seq + 1]}

UpdateRow(r) ==
  /\ seq' = seq + 1
  /\ rows' = (rows \ {r}) \cup {[r EXCEPT !.version = seq + 1]}

DeleteRow(r) == seq' = seq + 1 /\ rows' = rows \ {r}

\* The AI, another widget, another host.
Foreign ==
  /\ foreign < MaxForeign /\ foreign' = foreign + 1
  /\ \/ \E k \in Keys : AddRow(k)
     \/ \E r \in rows : UpdateRow(r)
  /\ UNCHANGED <<prefs, reading, shell, calls, removed, sets, faults>>

Reset ==
  /\ removed < MaxRemoved /\ removed' = removed + 1
  /\ \E r \in rows : DeleteRow(r)
  /\ UNCHANGED <<prefs, reading, shell, calls, foreign, sets, faults>>

----------------------------------------------------------------------------
\* schedulePrefSync: one timer at a time.
SchedulePrefSync == timer' = TRUE

Read(at) == [at |-> at, seq |-> 0, rows |-> {}]

\* syncPrefs, begun by the timer: one read at a time, and one more if asked for meanwhile.
SyncPrefs ==
  /\ timer /\ timer' = FALSE
  /\ IF read.at = "idle" THEN read' = Read("asked") /\ UNCHANGED queued
                         ELSE queued' = TRUE /\ UNCHANGED read
  /\ UNCHANGED <<ledger, prefs, shell, calls, counts>>

\* readCollection("settings") on the server.
ReadSettings ==
  /\ read.at = "asked"
  /\ read' = [at |-> "answered", seq |-> seq, rows |-> rows]
  /\ UNCHANGED <<ledger, prefs, queued, timer, shell, calls, counts>>

\* The finally clause of syncPrefs.
EndRead == read' = Read("idle") /\ queued' = FALSE /\ timer' = (timer \/ queued)

\* The monotonic gate: a slow read must never rewind a fresher setPref.
Overtaken(s) == mark # None /\ s.seq < mark

IngestRead ==
  /\ read.at = "answered"
  /\ IF Overtaken(read) THEN UNCHANGED prefs ELSE cache' = read.rows /\ mark' = read.seq
  /\ EndRead
  /\ UNCHANGED <<ledger, shell, calls, counts>>

ReadFails ==
  /\ read.at # "idle" /\ faults < MaxFaults /\ faults' = faults + 1
  /\ EndRead
  /\ UNCHANGED <<ledger, prefs, shell, calls, foreign, removed, sets>>

----------------------------------------------------------------------------
\* A walk of the app's own collection carries settings_version.
Walk ==
  /\ walk = None /\ walk' = seq
  /\ UNCHANGED <<ledger, prefs, reading, held, phase, probe, calls, counts>>

\* adopt: the first adoption starts markReady; later ones take the walk's settings_version for the
\* mark, and schedule the read that is to make it true.
Adopt ==
  /\ walk # None /\ walk' = None
  /\ IF walk < held THEN UNCHANGED <<held, phase, mark, timer>>
     ELSE /\ held' = walk
          /\ phase' = IF phase = "loading" THEN "warming" ELSE phase
          /\ IF phase = "ready" /\ walk # mark
             THEN mark' = walk /\ SchedulePrefSync
             ELSE UNCHANGED <<mark, timer>>
  /\ UNCHANGED <<ledger, cache, read, queued, probe, calls, counts>>

\* markReady's flush: the preferences have arrived, or a second has passed.
Flush ==
  /\ phase = "warming" /\ phase' = "ready"
  /\ UNCHANGED <<ledger, prefs, reading, held, walk, probe, calls, counts>>

Probe ==
  /\ phase = "ready" /\ probe = None /\ probe' = seq
  /\ UNCHANGED <<ledger, prefs, reading, held, phase, walk, calls, counts>>

\* decideProbe: a mark that is not defined yet asks for nothing.
DecideProbe ==
  /\ probe # None /\ probe' = None
  /\ IF mark # None /\ probe # mark THEN SchedulePrefSync ELSE UNCHANGED timer
  /\ UNCHANGED <<ledger, prefs, read, queued, held, phase, walk, calls, counts>>

----------------------------------------------------------------------------
\* setPref: the last row of the key is updated, or one is added.
SetPref(k) ==
  /\ sets < MaxSets /\ sets' = sets + 1
  /\ LET mine == {r.id : r \in {q \in cache : q.key = k}}
     IN calls' = calls \cup {[n |-> sets, key |-> k, ack |-> None,
                              row |-> IF mine = {} THEN None ELSE Max(mine)]}
  /\ UNCHANGED <<ledger, prefs, reading, shell, foreign, removed, faults>>

Replace(c, d) == calls' = (calls \ {c}) \cup {d}

\* The call reaches the store.  An update of a row that is gone is answered not_found, and the
\* widget sends an add instead.  The receipt names the settings event before its own.
Commit(c) ==
  /\ c.ack = None
  /\ LET ack == [seq |-> seq + 1, prev |-> seq]
     IN \/ c.row = None /\ AddRow(c.key) /\ Replace(c, [c EXCEPT !.row = seq + 1, !.ack = ack])
        \/ \E r \in rows : r.id = c.row /\ UpdateRow(r) /\ Replace(c, [c EXCEPT !.ack = ack])
        \/ /\ c.row # None /\ \A r \in rows : r.id # c.row
           /\ Replace(c, [c EXCEPT !.row = None]) /\ UNCHANGED ledger
  /\ UNCHANGED <<prefs, reading, shell, counts>>

\* applyAck: the row merges unless the cache has a later version of it.
Merge(c) ==
  LET new == [id |-> c.row, key |-> c.key, version |-> c.ack.seq]
      old == {r \in cache : r.id = c.row}
  IN IF \E r \in old : r.version > new.version THEN cache ELSE (cache \ old) \cup {new}

\* Only a receipt whose prev is inside the mark may move it.
Acked(c) ==
  /\ c.ack # None
  /\ LET known == IF mark = None THEN 0 ELSE mark
     IN IF c.ack.prev <= known
        THEN mark' = Max({known, c.ack.seq}) /\ UNCHANGED timer
        ELSE SchedulePrefSync /\ UNCHANGED mark
  /\ cache' = Merge(c)
  /\ calls' = calls \ {c}
  /\ UNCHANGED <<ledger, read, queued, shell, counts>>

\* The answer never comes; the write may have been done.
CallLost(c) ==
  /\ faults < MaxFaults /\ faults' = faults + 1
  /\ calls' = calls \ {c}
  /\ UNCHANGED <<ledger, prefs, reading, shell, foreign, removed, sets>>

----------------------------------------------------------------------------
\* The bridge has just connected: the first read is under way, nothing is painted.
Init ==
  /\ seq = 0 /\ rows = {} /\ cache = {} /\ mark = None /\ held = 0 /\ phase = "loading"
  /\ read = Read("asked") /\ queued = FALSE /\ timer = FALSE /\ walk = None /\ probe = None
  /\ calls = {} /\ foreign = 0 /\ removed = 0 /\ sets = 0 /\ faults = 0

Next ==
  \/ Foreign \/ Reset \/ SyncPrefs \/ ReadSettings \/ IngestRead \/ ReadFails
  \/ Walk \/ Adopt \/ Flush \/ Probe \/ DecideProbe
  \/ \E k \in Keys : SetPref(k)
  \/ \E c \in calls : Commit(c) \/ Acked(c) \/ CallLost(c)

Spec == Init /\ [][Next]_vars

----------------------------------------------------------------------------
AtRest ==
  /\ phase = "ready" /\ read.at = "idle" /\ ~timer /\ ~queued /\ walk = None /\ probe = None /\ calls = {}

\* "MOVING THE WATERMARK is not [safe] - another actor's write may sit below this seq, unread, and
\* the probe would never sync it": when nothing is under way and the probe would see no difference,
\* the cached preferences are those of the store.
PrefsHonest == AtRest /\ mark = seq => cache = rows
=============================================================================
