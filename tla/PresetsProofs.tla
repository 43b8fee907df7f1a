---------------------------- MODULE PresetsProofs ----------------------------
(***************************************************************************)
(* Theorems about the preset files (Presets, the F of Pieces), for every    *)
(* set of layouts, while one program writes at a time.                      *)
(***************************************************************************)
EXTENDS Pieces, TLAPS

-----------------------------------------------------------------------------
(* The inductive invariant.                                                 *)

Stages  == {"snapshot", "load", "backup", "copy", "create", "write", "sync", "rename",
            "config"}
Ops     == [verb : F!Verbs, at : Stages, text : F!Whole \cup {F!None}] \cup {F!Idle}

OneAtATime == \A v, w \in F!Writers : v # w => doing[v] = F!Idle \/ doing[w] = F!Idle

\* What a program knows at each of its stages: past "load" it has a whole text,
\* from "write" on the temporary file is there, from "sync" on it holds that
\* text, and at "rename" it is on the disk.
Prepared(w) ==
    /\ doing[w].at \in {"backup", "copy", "create", "write", "sync", "rename"}
         => doing[w].text \in F!Whole
    /\ doing[w].at \in {"write", "sync", "rename"} => tmp # F!None
    /\ doing[w].at \in {"sync", "rename"} => tmp = doing[w].text
    /\ doing[w].at = "rename" => "tmp" \notin unsynced
    /\ doing[w].at = "config" => live # F!None

\* From the copy to the rename, the preset that goes is in the backup.
Copied(w) ==
    /\ doing[w].at \in {"create", "write", "sync", "rename"}
    /\ doing[w].verb # "map" /\ live # F!None
    => backup = live

TypeOK ==
    /\ live \in F!Whole \cup {F!None} /\ tmp \in F!Files
    /\ snapshot \in F!Files /\ backup \in F!Files
    /\ json \in BOOLEAN /\ chosen \in BOOLEAN /\ backed \in BOOLEAN
    /\ unsynced \subseteq {"tmp", "session", "backup"}
    /\ doing \in [F!Writers -> Ops]

Safe ==
    /\ TypeOK
    /\ OneAtATime
    /\ \A w \in F!Writers : Prepared(w) /\ Copied(w)
    /\ chosen => live # F!None

-----------------------------------------------------------------------------
(* Lemmas.                                                                  *)

\* A whole file is neither an absent one nor one cut short.
LEMMA WholeIsNotNone == F!None \notin F!Whole /\ F!Torn \notin F!Whole /\ F!None # F!Torn
BY DEF F!Whole, F!None, F!Torn

LEMMA IdleIsAnOp == F!Idle \in Ops
BY DEF Ops

\* Every text a verb may write is a whole preset.
LEMMA TextsAreWhole ==
  ASSUME Empty \in Layouts, Default \in Layouts, NEW verb \in F!Verbs,
         verb \in F!Edits => live \in F!Whole
  PROVE  F!Texts(verb) \subseteq F!Whole
<1>1. CASE verb = "map"
  BY <1>1 DEF F!Texts, F!Apply, F!Whole, F!Edits
<1>2. CASE verb = "macro"
  BY <1>2 DEF F!Texts, F!SaveMacro, F!Whole, F!Edits
<1>3. CASE verb = "clear"
  BY <1>3 DEF F!Texts, F!ClearAll, F!Whole
<1>4. CASE verb \in {"new", "stage"}
  <2>1. F!Texts(verb) = F!PlanNew
    BY <1>4 DEF F!Texts
  <2>2. \A l \in Layouts : [layout |-> l, macros |-> FALSE] \in F!Whole
    BY DEF F!Whole
  <2> QED  BY <2>1, <2>2 DEF F!PlanNew
<1>5. CASE verb \in {"defaults", "session", "latest"}
  <2>1. ASSUME NEW file
        PROVE  F!Read(file) \subseteq F!Whole
    <3>1. CASE file \in F!Whole /\ ~json
      <4>1. file.layout \in Layouts
        BY <3>1 DEF F!Whole
      <4> QED  BY <3>1, <4>1 DEF F!Read, F!Whole
    <3>2. CASE ~(file \in F!Whole /\ ~json)
      BY <3>2 DEF F!Read
    <3> QED  BY <3>1, <3>2
  <2>2. F!Texts(verb) = F!Restore(verb)
    BY <1>5 DEF F!Texts
  <2>3. CASE verb = "defaults"
    BY <2>2, <2>3 DEF F!Restore, F!Whole
  <2>4. CASE verb = "session"
    BY <2>1, <2>2, <2>4 DEF F!Restore
  <2>5. CASE verb = "latest"
    BY <2>1, <2>2, <2>5 DEF F!Restore
  <2> QED  BY <1>5, <2>3, <2>4, <2>5
<1> QED  BY <1>1, <1>2, <1>3, <1>4, <1>5 DEF F!Verbs, F!Edits, F!Restores

\* A program at work is the only one at work.
LEMMA OthersAreIdle ==
  ASSUME OneAtATime, NEW w \in F!Writers, doing[w] # F!Idle
  PROVE  \A v \in F!Writers \ {w} : doing[v] = F!Idle
BY DEF OneAtATime

\* An idle program knows nothing that a step of another could spoil.
LEMMA IdleIsPrepared ==
  ASSUME NEW w \in F!Writers, doing[w] = F!Idle
  PROVE  Prepared(w) /\ Copied(w)
BY DEF F!Idle, Prepared, Copied

\* So what a program at work does has to be checked for that program alone.
LEMMA OneWriterStep ==
  ASSUME Safe, NEW w \in F!Writers, doing[w] # F!Idle, NEW o \in Ops,
         doing' = [doing EXCEPT ![w] = o],
         Prepared(w)', Copied(w)'
  PROVE  /\ doing' \in [F!Writers -> Ops]
         /\ OneAtATime'
         /\ \A v \in F!Writers : Prepared(v)' /\ Copied(v)'
<1>1. doing \in [F!Writers -> Ops] /\ OneAtATime
  BY DEF Safe, TypeOK
<1>2. doing'[w] = o /\ \A v \in F!Writers \ {w} : doing'[v] = F!Idle
  BY <1>1, OthersAreIdle
<1>3. \A v \in F!Writers \ {w} : Prepared(v)' /\ Copied(v)'
  BY <1>2 DEF F!Idle, Prepared, Copied
<1>4. OneAtATime'
  BY <1>2 DEF OneAtATime
<1> QED  BY <1>1, <1>3, <1>4

-----------------------------------------------------------------------------
(* Every step keeps the invariant.                                          *)

LEMMA BeginSafe ==
  ASSUME AtOnce = 1, Safe, NEW w \in F!Writers, NEW verb \in F!Verbs, F!Begin(w, verb)
  PROVE  Safe'
<1>1. /\ doing'[w] = [F!Idle EXCEPT !.verb = verb, !.at = F!FirstStep(w, verb)]
      /\ doing' \in [F!Writers -> Ops]
  BY DEF F!Begin, Safe, TypeOK, Ops, F!Idle, F!FirstStep, Stages, F!Edits, F!Verbs
<1>2. \A v \in F!Writers \ {w} : doing'[v] = F!Idle
  BY DEF F!Begin, Safe, TypeOK
<1>3. doing'[w].at \in {"snapshot", "load"}
  BY <1>1 DEF F!Idle, F!FirstStep
<1>4. \A v \in F!Writers : Prepared(v)' /\ Copied(v)'
  BY <1>2, <1>3 DEF Prepared, Copied, F!Idle
<1>5. OneAtATime'
  BY <1>2 DEF OneAtATime
<1> QED  BY <1>1, <1>4, <1>5 DEF Safe, TypeOK, F!Begin

\* A verb that ends, well or not, leaves its program idle.
LEMMA RefusesSafe ==
  ASSUME Safe, NEW w \in F!Writers, F!Refuses(w)
  PROVE  Safe'
<1>1. /\ doing' \in [F!Writers -> Ops]
      /\ doing'[w] = F!Idle
      /\ \A v \in F!Writers \ {w} : doing'[v] = doing[v]
  BY IdleIsAnOp DEF Safe, TypeOK, F!Refuses, F!Finishes
<1>2. OneAtATime'
  BY <1>1 DEF Safe, OneAtATime
<1>3. \A v \in F!Writers : Prepared(v)' /\ Copied(v)'
  BY <1>1 DEF Safe, F!Refuses, Prepared, Copied, F!Idle
<1> QED  BY <1>1, <1>2, <1>3 DEF Safe, TypeOK, F!Refuses

LEMMA SnapshotSafe ==
  ASSUME Safe, NEW w \in F!Writers, F!Snapshot(w)
  PROVE  Safe'
<1>1. doing[w] \in Ops /\ doing[w] # F!Idle
  BY DEF Safe, TypeOK, F!Snapshot, F!Idle
<1>2. /\ doing' = [doing EXCEPT ![w] = [doing[w] EXCEPT !.at = "load"]]
      /\ [doing[w] EXCEPT !.at = "load"] \in Ops
  BY <1>1 DEF F!Snapshot, F!Goes, Ops, Stages
<1>3. doing'[w].at = "load"
  BY <1>1, <1>2 DEF Safe, TypeOK, Ops
<1>4. Prepared(w)' /\ Copied(w)'
  BY <1>3 DEF Prepared, Copied
<1>5. snapshot' \in F!Files /\ backed' \in BOOLEAN /\ unsynced' \subseteq {"tmp", "session", "backup"}
  BY DEF Safe, TypeOK, F!Snapshot, F!Files
<1> QED  BY <1>1, <1>2, <1>4, <1>5, OneWriterStep DEF Safe, TypeOK, F!Snapshot

LEMMA LoadSafe ==
  ASSUME Empty \in Layouts, Default \in Layouts, Safe, NEW w \in F!Writers, F!Load(w)
  PROVE  Safe'
<1>1. doing[w] \in Ops /\ doing[w] # F!Idle
  BY DEF Safe, TypeOK, F!Load, F!Idle
<1>2. CASE F!Refuses(w)
  BY <1>2, RefusesSafe
<1>3. ASSUME ~F!Refuses(w)
      PROVE  Safe'
  <2> DEFINE at == IF F!Overwrites(doing[w].verb) /\ live # F!None THEN "backup" ELSE "create"
  <2>1. /\ doing[w].verb \in F!Edits \cup F!Restores => live \in F!Whole
        /\ UNCHANGED <<live, json, tmp, unsynced, snapshot, backup, chosen, backed>>
    BY <1>3 DEF F!Load
  <2>2. PICK text \in F!Texts(doing[w].verb) :
          doing' = [doing EXCEPT ![w].text = text, ![w].at = at]
    BY <1>3 DEF F!Load
  <2>3. text \in F!Whole
    <3>1. doing[w].verb \in F!Verbs
      BY <1>1 DEF Ops
    <3> QED  BY <3>1, <2>1, <2>2, TextsAreWhole
  <2> DEFINE o == [doing[w] EXCEPT !.text = text, !.at = at]
  <2>4. o \in Ops /\ doing' = [doing EXCEPT ![w] = o]
    BY <1>1, <2>2, <2>3 DEF Ops, Stages, Safe, TypeOK
  <2>5. doing'[w].at = at /\ doing'[w].text = text /\ doing'[w].verb = doing[w].verb
    BY <1>1, <2>4 DEF Ops, Safe, TypeOK
  <2>6. Prepared(w)' /\ Copied(w)'
    BY <2>1, <2>3, <2>5 DEF Prepared, Copied, F!Overwrites
  <2> QED  BY <1>1, <2>1, <2>4, <2>6, OneWriterStep DEF Safe, TypeOK
<1> QED  BY <1>2, <1>3

LEMMA BackupSafe ==
  ASSUME Safe, NEW w \in F!Writers, F!Backup(w)
  PROVE  Safe'
<1>1. doing[w] \in Ops /\ doing[w] # F!Idle
  BY DEF Safe, TypeOK, F!Backup, F!Idle
<1>2. /\ doing' = [doing EXCEPT ![w] = [doing[w] EXCEPT !.at = "copy"]]
      /\ [doing[w] EXCEPT !.at = "copy"] \in Ops
  BY <1>1 DEF F!Backup, F!Goes, Ops, Stages
<1>3. doing'[w].at = "copy" /\ doing'[w].text = doing[w].text
  BY <1>1, <1>2 DEF Safe, TypeOK, Ops
<1>4. Prepared(w)' /\ Copied(w)'
  BY <1>3 DEF Prepared, Copied, Safe, F!Backup
<1> QED  BY <1>1, <1>2, <1>4, OneWriterStep DEF Safe, TypeOK, F!Backup, F!Files

\* The copy is complete, or the verb is over.
LEMMA CopySafe ==
  ASSUME Safe, NEW w \in F!Writers, F!Copy(w)
  PROVE  Safe'
<1>1. doing[w] \in Ops /\ doing[w] # F!Idle
  BY DEF Safe, TypeOK, F!Copy, F!Idle
<1>2. CASE UNCHANGED backup /\ F!Finishes(w)
  BY <1>2, RefusesSafe DEF F!Copy, F!Refuses
<1>3. CASE backup' = live /\ F!Goes(w, "create")
  <2>1. /\ doing' = [doing EXCEPT ![w] = [doing[w] EXCEPT !.at = "create"]]
        /\ [doing[w] EXCEPT !.at = "create"] \in Ops
    BY <1>1, <1>3 DEF F!Goes, Ops, Stages
  <2>2. doing'[w].at = "create" /\ doing'[w].text = doing[w].text
    BY <1>1, <2>1 DEF Safe, TypeOK, Ops
  <2>3. Prepared(w)' /\ Copied(w)'
    BY <1>3, <2>2 DEF Prepared, Copied, Safe, F!Copy
  <2> QED  BY <1>1, <1>3, <2>1, <2>3, OneWriterStep DEF Safe, TypeOK, F!Copy, F!Files
<1> QED  BY <1>2, <1>3 DEF F!Copy

\* write_atomic, up to the rename: the temporary file alone is touched.
LEMMA WriteSafe ==
  ASSUME Safe, NEW w \in F!Writers, F!Create(w) \/ F!Write(w) \/ F!Sync(w)
  PROVE  Safe'
<1> DEFINE next == IF doing[w].at = "create" THEN "write"
                   ELSE IF doing[w].at = "write" THEN "sync" ELSE "rename"
<1>1. doing[w] \in Ops /\ doing[w] # F!Idle /\ doing[w].at \in {"create", "write", "sync"}
  BY DEF Safe, TypeOK, F!Create, F!Write, F!Sync, F!Idle
<1>2. /\ doing' = [doing EXCEPT ![w] = [doing[w] EXCEPT !.at = next]]
      /\ [doing[w] EXCEPT !.at = next] \in Ops
  BY <1>1 DEF F!Create, F!Write, F!Sync, F!Goes, Ops, Stages
<1>3. doing'[w].at = next /\ doing'[w].text = doing[w].text /\ doing'[w].verb = doing[w].verb
  BY <1>1, <1>2 DEF Safe, TypeOK, Ops
<1>4. doing[w].text \in F!Whole /\ (doing[w].at # "create" => tmp # F!None)
  BY <1>1 DEF Safe, Prepared
<1>5. /\ live' = live /\ backup' = backup
      /\ unsynced' = IF doing[w].at = "sync" THEN unsynced \ {"tmp"} ELSE unsynced \cup {"tmp"}
      /\ tmp' = IF doing[w].at = "create" THEN F!Torn
                ELSE IF doing[w].at = "write" THEN doing[w].text ELSE tmp
  BY <1>4 DEF F!Create, F!Write, F!Sync
<1>6. Prepared(w)'
  BY <1>1, <1>3, <1>4, <1>5, WholeIsNotNone DEF Prepared, Safe
<1>7. Copied(w)'
  BY <1>1, <1>3, <1>5 DEF Copied, Safe
<1>8. tmp' \in F!Files /\ unsynced' \subseteq {"tmp", "session", "backup"}
  BY <1>4, <1>5 DEF Safe, TypeOK, F!Files
<1>9. UNCHANGED <<json, snapshot, chosen, backed>>
  BY DEF F!Create, F!Write, F!Sync
<1> QED  BY <1>1, <1>2, <1>5, <1>6, <1>7, <1>8, <1>9, OneWriterStep DEF Safe, TypeOK

\* The rename puts a whole text, which is on the disk, in the preset's place.
LEMMA RenameSafe ==
  ASSUME Safe, NEW w \in F!Writers, F!Rename(w)
  PROVE  Safe'
<1>1. doing[w] \in Ops /\ doing[w] # F!Idle /\ doing[w].at = "rename"
  BY DEF Safe, TypeOK, F!Rename, F!Idle
<1>2. tmp = doing[w].text /\ tmp \in F!Whole /\ tmp # F!None /\ "tmp" \notin unsynced
  BY <1>1 DEF Safe, Prepared
<1>3. /\ live' = tmp /\ tmp' = F!None /\ unsynced' \subseteq unsynced
      /\ UNCHANGED <<json, snapshot, backup, chosen, backed>>
  BY <1>2 DEF F!Rename
<1>4. live' # F!None
  BY <1>2, <1>3
<1>5. CASE doing[w].verb = "stage"
  <2>1. /\ doing' = [doing EXCEPT ![w] = [doing[w] EXCEPT !.at = "config"]]
        /\ [doing[w] EXCEPT !.at = "config"] \in Ops
    BY <1>1, <1>2, <1>5 DEF F!Rename, F!Goes, Ops, Stages
  <2>2. doing'[w].at = "config"
    BY <1>1, <2>1 DEF Safe, TypeOK, Ops
  <2>3. Prepared(w)' /\ Copied(w)'
    BY <1>4, <2>2 DEF Prepared, Copied
  <2> QED  BY <1>1, <1>2, <1>3, <1>4, <2>1, <2>3, OneWriterStep DEF Safe, TypeOK, F!Files
<1>6. CASE doing[w].verb # "stage"
  <2>1. doing' = [doing EXCEPT ![w] = F!Idle]
    BY <1>2, <1>6 DEF F!Rename, F!Finishes
  <2>2. Prepared(w)' /\ Copied(w)'
    BY <2>1 DEF Prepared, Copied, F!Idle, Safe, TypeOK
  <2> QED  BY <1>1, <1>2, <1>3, <1>4, <2>1, <2>2, OneWriterStep, IdleIsAnOp
    DEF Safe, TypeOK, F!Files
<1> QED  BY <1>5, <1>6

LEMMA ConfigSafe ==
  ASSUME Safe, NEW w \in F!Writers, F!Config(w)
  PROVE  Safe'
<1>1. doing[w] # F!Idle /\ live # F!None
  BY DEF F!Config, F!Idle, Safe, Prepared
<1>2. doing' = [doing EXCEPT ![w] = F!Idle] /\ doing'[w] = F!Idle
  BY DEF F!Config, F!Finishes, Safe, TypeOK
<1>3. Prepared(w)' /\ Copied(w)'
  BY <1>2 DEF Prepared, Copied, F!Idle
<1> QED  BY <1>1, <1>2, <1>3, OneWriterStep, IdleIsAnOp DEF Safe, TypeOK, F!Config

\* A killed program is an idle one, wherever it stood.
LEMMA RestartSafe ==
  ASSUME Safe, NEW w \in F!Writers, F!Restart(w)
  PROVE  Safe'
<1>1. /\ doing' \in [F!Writers -> Ops]
      /\ doing'[w] = F!Idle
      /\ \A v \in F!Writers \ {w} : doing'[v] = doing[v]
  BY IdleIsAnOp DEF Safe, TypeOK, F!Restart, F!Finishes
<1>2. OneAtATime'
  BY <1>1 DEF Safe, OneAtATime
<1>3. \A v \in F!Writers : Prepared(v)' /\ Copied(v)'
  BY <1>1 DEF Safe, F!Restart, Prepared, Copied, F!Idle
<1> QED  BY <1>1, <1>2, <1>3 DEF Safe, TypeOK, F!Restart

\* The preset is on the disk whatever the step, so a power loss spares it; the
\* copies it may take with it are of no verb's, because none is at work then.
LEMMA PowerLossSafe ==
  ASSUME Safe, F!PowerLoss
  PROVE  Safe'
<1>1. live' = live
  BY DEF Safe, TypeOK, F!PowerLoss
<1>2. \A w \in F!Writers : doing'[w] = F!Idle /\ Prepared(w)' /\ Copied(w)'
  BY DEF F!PowerLoss, Prepared, Copied, F!Idle
<1>3. doing' \in [F!Writers -> Ops] /\ OneAtATime'
  BY <1>2, IdleIsAnOp DEF F!PowerLoss, OneAtATime
<1>4. ASSUME NEW name, NEW file \in F!Files
      PROVE  F!Left(name, file) \subseteq F!Files
  BY DEF F!Left, F!Files
<1>5. tmp' \in F!Files /\ snapshot' \in F!Files /\ backup' \in F!Files
  BY <1>4 DEF Safe, TypeOK, F!PowerLoss
<1>6. UNCHANGED <<json, chosen>> /\ backed' = FALSE /\ unsynced' = {}
  BY DEF F!PowerLoss
<1> QED  BY <1>1, <1>2, <1>3, <1>5, <1>6 DEF Safe, TypeOK

LEMMA NextSafe ==
  ASSUME AtOnce = 1, Empty \in Layouts, Default \in Layouts, Safe, [F!Next]_(F!vars)
  PROVE  Safe'
<1>1. ASSUME NEW w \in F!Writers, F!Step(w)
      PROVE  Safe'
  BY <1>1, BeginSafe, SnapshotSafe, LoadSafe, BackupSafe, CopySafe, WriteSafe, RenameSafe,
     ConfigSafe, RestartSafe, RefusesSafe DEF F!Step, F!Fails
<1>2. CASE UNCHANGED F!vars
  BY <1>2 DEF F!vars, Safe, TypeOK, OneAtATime, Prepared, Copied
<1> QED  BY <1>1, <1>2, PowerLossSafe DEF F!Next

LEMMA InitSafe == F!Init => Safe
<1> SUFFICES ASSUME F!Init  PROVE Safe
  OBVIOUS
<1>1. \A w \in F!Writers : doing[w] = F!Idle
  BY DEF F!Init
<1>2. doing \in [F!Writers -> Ops] /\ OneAtATime
  BY <1>1, IdleIsAnOp DEF F!Init, OneAtATime
<1>3. \A w \in F!Writers : Prepared(w) /\ Copied(w)
  BY <1>1, IdleIsPrepared
<1>4. json \in BOOLEAN /\ chosen \in BOOLEAN /\ (chosen => live # F!None)
  BY DEF F!Init
<1> QED  BY <1>2, <1>3, <1>4 DEF F!Init, Safe, TypeOK, F!Files

-----------------------------------------------------------------------------
(* Theorems.                                                                *)

\* As long as one program writes at a time, a preset is whole or not there, and
\* no slot names one that is not there, whatever fails or is killed and wherever
\* the power is lost (write_atomic, and stage::apply's order of two files).
THEOREM PresetsStayWhole ==
  ASSUME AtOnce = 1, Empty \in Layouts, Default \in Layouts
  PROVE  F!Spec => []FileIsWhole
<1>1. Safe => FileIsWhole
  BY WholeIsNotNone DEF Safe, TypeOK, FileIsWhole, F!FileIsWhole
<1>2. Safe /\ [F!Next]_(F!vars) => Safe'
  BY NextSafe
<1> QED  BY InitSafe, <1>1, <1>2, PTL DEF F!Spec

\* As long as one program writes at a time, whatever a whole-preset write
\* replaces is complete in the newest backup when it is replaced (take_backup).
THEOREM BackupsComeFirst ==
  ASSUME AtOnce = 1, Empty \in Layouts, Default \in Layouts
  PROVE  F!Spec => NothingIsLost
<1>1. Safe => \A w \in F!Writers :
        doing[w].at = "rename" /\ doing[w].verb # "map" /\ live' # live /\ live # F!None
          => backup = live
  BY DEF Safe, Copied
<1>2. Safe /\ [F!Next]_(F!vars) => Safe'
  BY NextSafe
<1> QED  BY InitSafe, <1>1, <1>2, PTL DEF F!Spec, NothingIsLost, F!NothingIsLost
=============================================================================
