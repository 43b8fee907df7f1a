------------------------------- MODULE Presets -------------------------------
(***************************************************************************)
(* A preset on disk and everything that writes it: the daemon's pipe and    *)
(* the command line, each load, backup and save a file operation of its own *)
(* with a crash or a power loss possible before the next (ksx-config        *)
(* store.rs, ksx-backend mapping.rs, stage.rs, preset_edit.rs).             *)
(*                                                                          *)
(* A preset is its layout (which key drives which control) and whether it   *)
(* holds macros, chords or turbo rows; how either is spelled is left out.   *)
(* A file cut short does not parse.                                         *)
(***************************************************************************)
EXTENDS Naturals

CONSTANTS
    Layouts,      \* the bindings a preset can hold, Empty and Default among them
    Empty,        \* builtin_empty
    Default,      \* builtin_default
    AtOnce        \* how many programs write at once

Writers == {"daemon", "cli"}
Whole   == [layout : Layouts, macros : BOOLEAN]
None    == [file |-> "none"]
Torn    == [file |-> "torn"]
Files   == Whole \cup {None, Torn}

VARIABLES
    live,       \* the preset file
    json,       \* it is the .json spelling
    tmp,        \* its <name>.tmp, one for all writers
    unsynced,   \* which files were written and not put on the disk by a sync
    session,    \* its <name>.session-bak
    backup,     \* the newest of its <name>.bak-<stamp>, the only one ever read
    named,      \* a slot of config.toml names the preset
    backed,     \* the daemon's once-per-lifetime set has the preset
    op          \* what each program is doing

vars == <<live, json, tmp, unsynced, session, backup, named, backed, op>>

Idle == [verb |-> "none", at |-> "idle", text |-> None]

Init ==
    /\ live \in Whole \cup {None}
    /\ json \in IF live = None THEN {FALSE} ELSE BOOLEAN
    /\ tmp = None /\ unsynced = {}
    /\ session \in Whole \cup {None}     \* of an earlier lifetime
    /\ backup = None /\ backed = FALSE
    /\ named \in IF live = None THEN {FALSE} ELSE BOOLEAN
    /\ op = [w \in Writers |-> Idle]

----------------------------------------------------------------------------
(* Starting                                                                 *)

Edits    == {"map", "macro"}
Restores == {"defaults", "session", "latest", "clear"}
Verbs    == Edits \cup Restores \cup {"new", "stage"}

\* preset_writers: only the daemon's two editors take the session's snapshot.
FirstStep(w, verb) ==
    IF w = "daemon" /\ verb \in Edits /\ ~backed THEN "snapshot" ELSE "load"

Begin(w, verb) ==
    /\ op[w] = Idle
    /\ \A v \in Writers \ {w} : op[v] = Idle \/ AtOnce > 1
    /\ op' = [op EXCEPT ![w] = [Idle EXCEPT !.verb = verb, !.at = FirstStep(w, verb)]]
    /\ UNCHANGED <<live, json, tmp, unsynced, session, backup, named, backed>>

Goes(w, at)   == op' = [op EXCEPT ![w].at = at]
Finishes(w)   == op' = [op EXCEPT ![w] = Idle]
OnlyGoes(w, at) ==
    Goes(w, at) /\ UNCHANGED <<live, json, tmp, unsynced, session, backup, named, backed>>
Refuses(w) ==
    Finishes(w) /\ UNCHANGED <<live, json, tmp, unsynced, session, backup, named, backed>>

\* take_session_backup: a failed copy stops neither this write nor the next
\* attempt; a missing preset counts as copied.
Snapshot(w) ==
    /\ op[w].at = "snapshot"
    /\ \/ live = None /\ backed' = TRUE /\ UNCHANGED <<session, unsynced>>
       \/ UNCHANGED <<session, backed, unsynced>>
       \/ /\ live # None /\ unsynced' = unsynced \cup {"session"}
          /\ \/ session' = live /\ backed' = TRUE
             \/ session' = Torn /\ backed' = backed
    /\ Goes(w, "load")
    /\ UNCHANGED <<live, json, tmp, backup, named>>

----------------------------------------------------------------------------
(* Loading, and what is to be written                                       *)

\* bindings_from_backup, which parses TOML alone.
Read(file) ==
    IF file \in Whole /\ ~json THEN {[layout |-> file.layout, macros |-> FALSE]} ELSE {}

\* What each verb may come to write over the preset it loaded.
Apply     == {[live EXCEPT !.layout = l] : l \in Layouts}
SaveMacro == {[live EXCEPT !.macros = m] : m \in BOOLEAN}
ClearAll  == {[layout |-> Empty, macros |-> FALSE]}
PlanNew   == {[layout |-> l, macros |-> FALSE] : l \in Layouts}

Restore(verb) ==
    CASE verb = "defaults" -> {[layout |-> Default, macros |-> FALSE]}
      [] verb = "session"  -> Read(session)
      [] verb = "latest"   -> Read(backup)

Texts(verb) ==
    CASE verb = "map"   -> Apply
      [] verb = "macro" -> SaveMacro
      [] verb = "clear" -> ClearAll
      [] verb \in {"new", "stage"} -> PlanNew
      [] OTHER          -> Restore(verb)

\* Mutant of Overwrites: a macro's body is saved as a binding is.
Overwrites_NotMacros(verb) == verb \notin Edits

Overwrites(verb) == verb # "map"

\* apply, save_macro, restore, clear_all load the preset and refuse without it;
\* plan_new refuses one that is there unless forced; a stage replaces it.
Load(w) ==
    /\ op[w].at = "load"
    /\ \/ Refuses(w)
       \/ /\ op[w].verb \in Edits \cup Restores => live \in Whole
          /\ \E text \in Texts(op[w].verb) :
               op' = [op EXCEPT ![w].text = text,
                                ![w].at = IF Overwrites(op[w].verb) /\ live # None
                                          THEN "backup" ELSE "create"]
          /\ UNCHANGED <<live, json, tmp, unsynced, session, backup, named, backed>>

----------------------------------------------------------------------------
(* take_backup, Store::backup: a fresh name, then a copy in two steps that  *)
(* nothing syncs                                                            *)

Backup(w) ==
    /\ op[w].at = "backup"
    /\ backup' = Torn /\ unsynced' = unsynced \cup {"backup"}
    /\ Goes(w, "copy")
    /\ UNCHANGED <<live, json, tmp, session, named, backed>>

Copy(w) ==
    /\ op[w].at = "copy"
    /\ \/ /\ backup' = live
          /\ Goes(w, "create")
       \/ UNCHANGED backup /\ Finishes(w)
    /\ UNCHANGED <<live, json, tmp, unsynced, session, named, backed>>

----------------------------------------------------------------------------
(* write_atomic                                                             *)

Create(w) ==
    /\ op[w].at = "create"
    /\ tmp' = Torn /\ unsynced' = unsynced \cup {"tmp"}
    /\ Goes(w, "write")
    /\ UNCHANGED <<live, json, session, backup, named, backed>>

\* The open file is written, which is the preset if another writer renamed it.
Write(w) ==
    /\ op[w].at = "write"
    /\ IF tmp = None
       THEN live' = op[w].text /\ tmp' = tmp
       ELSE tmp' = op[w].text /\ live' = live
    /\ unsynced' = unsynced \cup {IF tmp = None THEN "live" ELSE "tmp"}
    /\ Goes(w, "sync")
    /\ UNCHANGED <<json, session, backup, named, backed>>

\* Mutant of Sync: the file is not put on the disk before the rename.
Sync_Not(w) ==
    /\ op[w].at = "sync"
    /\ OnlyGoes(w, "rename")

Sync(w) ==
    /\ op[w].at = "sync"
    /\ unsynced' = unsynced \ {IF tmp = None THEN "live" ELSE "tmp"}
    /\ Goes(w, "rename")
    /\ UNCHANGED <<live, json, tmp, session, backup, named, backed>>

\* fs::rename replaces the preset; without the file it fails, and so does the verb.
Rename(w) ==
    /\ op[w].at = "rename"
    /\ IF tmp = None
       THEN Refuses(w)
       ELSE /\ live' = tmp /\ tmp' = None
            /\ unsynced' = (unsynced \ {"tmp", "live"})
                              \cup {f \in {"live"} : "tmp" \in unsynced}
            /\ IF op[w].verb = "stage" THEN Goes(w, "config") ELSE Finishes(w)
            /\ UNCHANGED <<json, session, backup, named, backed>>

\* stage::apply's second half: load_config, backup and save_config, the same
\* three file operations on another file, shown as the one rename that counts.
Config(w) ==
    /\ op[w].at = "config"
    /\ named' = TRUE /\ Finishes(w)
    /\ UNCHANGED <<live, json, tmp, unsynced, session, backup, backed>>

\* Any file operation may fail; `?` ends the verb where it stands.
Fails(w) ==
    /\ op[w].at \in {"backup", "create", "write", "sync", "rename", "config"}
    /\ Refuses(w)

----------------------------------------------------------------------------
(* The program is killed; the machine loses power                           *)

Restart(w) ==
    /\ Finishes(w)
    /\ IF w = "daemon" THEN backed' = FALSE ELSE UNCHANGED backed
    /\ UNCHANGED <<live, json, tmp, unsynced, session, backup, named>>

\* What a power loss may leave of an unsynced file: all of it, a part, or nothing;
\* the preset's own name was there before.
Left(name, file) == IF name \in unsynced THEN {file, Torn, None} ELSE {file}

\* A copy that has gone does not uncover the one before it, of which no record is
\* kept here.
PowerLoss ==
    /\ op' = [w \in Writers |-> Idle] /\ backed' = FALSE
    /\ live' \in {live} \cup {f \in {Torn} : "live" \in unsynced}
    /\ tmp' \in Left("tmp", tmp)
    /\ session' \in Left("session", session)
    /\ backup' \in Left("backup", backup)
    /\ unsynced' = {}
    /\ UNCHANGED <<json, named>>

Step(w) ==
    \/ \E verb \in Verbs : Begin(w, verb)
    \/ Snapshot(w) \/ Load(w) \/ Backup(w) \/ Copy(w)
    \/ Create(w) \/ Write(w) \/ Sync(w) \/ Rename(w) \/ Config(w)
    \/ Fails(w) \/ Restart(w)

Next == (\E w \in Writers : Step(w)) \/ PowerLoss

Spec == Init /\ [][Next]_vars

----------------------------------------------------------------------------
\* A preset is whole or not there, and a slot names none that is not there: no
\* crash and no power loss, at whichever file operation, leaves one cut short or
\* a slot without its preset (write_atomic, and apply's order of the two files).
FileIsWhole ==
    /\ live # Torn
    /\ named => live # None

\* What a whole-preset write replaces is copied beside it, complete, before it
\* is replaced: a program killed between the two files loses neither (take_backup's
\* place in restore, clear_all, save_macro, apply_new and stage::apply).
NothingIsLost ==
    [][\A w \in Writers :
         op[w].at = "rename" /\ op[w].verb # "map" /\ live' # live /\ live # None
           => backup = live]_vars

\* mapping.rs, "take the road home first": the complete copy of what a finished
\* write replaced is still there after a power loss.  Nothing syncs it.
BackupsOutlivePower ==
    [][PowerLoss /\ op = [w \in Writers |-> Idle] /\ backup \in Whole
         => backup' = backup]_vars
=============================================================================
