-------------------------------- MODULE Claim --------------------------------
(***************************************************************************)
(* Taking a keyboard out of the Windows keyboard stack and giving it back   *)
(* (ksx winusb claim / release): a survey of the device tree, a plan or a   *)
(* refusal, then pnputil commands run in order, any of which may fail.      *)
(* Meanwhile boards are plugged, unplugged and switched off, and a driver   *)
(* may be rolled back by hand.                                              *)
(*                                                                          *)
(* The device tree, the driver store and pnputil are Windows: modelled from *)
(* what the commands are run for.  An INF matches a hardware id, so it      *)
(* binds every board of the model, and it outranks the in-box driver.       *)
(***************************************************************************)
EXTENDS Naturals, FiniteSets

CONSTANTS
    Boards,
    Model,       \* Model[b]: its hardware id
    Bluetooth,   \* the boards no INF can bind
    Texts,       \* what render_inf has written for a model: its device name, the version of ksx
    MaxEvents    \* bound: what the world does

VARIABLES
    node,       \* Windows' node of a board: absent, removed, hid, winusb
    off,        \* the boards that are disabled or not connected
    store,      \* the driver store: ksx INFs, as [model, text]
    op,         \* the command being run
    outcome,    \* what the last command said
    moved,      \* the world moved since the command surveyed the tree
    events      \* bound: times the world moved

vars == <<node, off, store, op, outcome, moved, events>>

NoOp == [verb |-> "none", board |-> 0, at |-> "idle", oem |-> {}, known |-> TRUE]

InTree(b) == node[b] \in {"hid", "winusb"}

\* What Windows binds a board to when it enumerates it.
Binding(b) ==
    IF b \notin Bluetooth /\ \E c \in store : c.model = Model[b] THEN "winusb" ELSE "hid"

\* Survey::usable_boards, why_unusable: boards that could type right now.
Usable == {b \in Boards : node[b] = "hid" /\ b \notin off}

Init ==
    /\ node \in [Boards -> {"absent", "hid"}]
    /\ off \in SUBSET Boards
    /\ store = {} /\ op = NoOp /\ outcome = "none"
    /\ moved = FALSE /\ events = 0

----------------------------------------------------------------------------
(* The world                                                                *)

World ==
    /\ events < MaxEvents
    /\ events' = events + 1
    /\ moved' = TRUE
    /\ UNCHANGED <<op, outcome>>

Plug(b) ==
    /\ World /\ node[b] = "absent"
    /\ node' = [node EXCEPT ![b] = Binding(b)]
    /\ UNCHANGED <<off, store>>

Unplug(b) ==
    /\ World /\ node[b] # "absent"
    /\ node' = [node EXCEPT ![b] = "absent"]
    /\ UNCHANGED <<off, store>>

Switch(b) ==
    /\ World
    /\ off' = IF b \in off THEN off \ {b} ELSE off \cup {b}
    /\ UNCHANGED <<node, store>>

\* The driver is rolled back in the Device Manager: the INF stays in the store.
RollBack(b) ==
    /\ World /\ node[b] = "winusb"
    /\ node' = [node EXCEPT ![b] = "hid"]
    /\ UNCHANGED <<off, store>>

----------------------------------------------------------------------------
(* pnputil                                                                  *)

AddDriver(inf) ==
    /\ store' = store \cup {inf}
    /\ node' = [b \in Boards |->
                  IF InTree(b) /\ b \notin Bluetooth /\ Model[b] = inf.model
                  THEN "winusb" ELSE node[b]]

RemoveDevice(b) == node' = [node EXCEPT ![b] = IF InTree(b) THEN "removed" ELSE @]

DeleteDriver(infs) ==
    /\ store' = store \ infs
    /\ node' = [b \in Boards |->
                  IF node[b] = "winusb" /\ \E c \in infs : c.model = Model[b]
                  THEN "removed" ELSE node[b]]

ScanDevices == node' = [b \in Boards |-> IF node[b] = "removed" THEN Binding(b) ELSE node[b]]

----------------------------------------------------------------------------
(* The commands                                                             *)

Starts(verb, b, at) ==
    /\ op' = [NoOp EXCEPT !.verb = verb, !.board = b, !.at = at]
    /\ outcome' = "none" /\ moved' = FALSE
    /\ UNCHANGED <<node, off, store, events>>

\* Mutant of Siblings: a twin that is switched off is not counted.
Siblings_Connected(b) == {o \in Usable \ {b} : o \notin Bluetooth /\ Model[o] = Model[b]}

\* plan_claim's siblings: other boards the same INF would bind.
Siblings(b) == {o \in Boards \ {b} : InTree(o) /\ o \notin Bluetooth /\ Model[o] = Model[b]}

\* plan_claim; an answer other than a plan changes nothing.
StartClaim(b) ==
    /\ op = NoOp
    /\ node[b] = "hid" /\ b \notin Bluetooth
    /\ Siblings(b) = {}
    /\ Usable \ {b} # {}
    /\ Starts("claim", b, "inf")

\* plan_release: of a claimed board, or of any with --force.
StartRelease(b, force) ==
    /\ op = NoOp
    /\ InTree(b)
    /\ node[b] = "winusb" \/ force
    /\ Starts("release", b, "enum")

Goes(at) == op' = [op EXCEPT !.at = at] /\ outcome' = outcome /\ UNCHANGED <<off, moved, events>>
Ends(o)  == op' = NoOp /\ outcome' = o /\ UNCHANGED <<off, moved, events>>

\* A command of the list fails: the rest of the list is not run.
Fails ==
    /\ op.at \in {"inf", "add", "scan", "remove", "delete"}
    /\ Ends("failed")
    /\ UNCHANGED <<node, store>>

WriteInf == op.at = "inf" /\ Goes("add") /\ UNCHANGED <<node, store>>

Add ==
    /\ op.at = "add"
    /\ \E t \in Texts : AddDriver([model |-> Model[op.board], text |-> t])
    /\ Goes("scan")

\* apply_release looks the INF up first; it may not learn the answer.  A board
\* without a USB hardware id has none to look up.
Enumerate ==
    /\ op.at = "enum"
    /\ LET found == {c \in store : c.model = Model[op.board]} IN
       \/ /\ found = {}
          /\ op' = [op EXCEPT !.at = "remove"]
       \/ \E c \in found : op' = [op EXCEPT !.at = "remove", !.oem = {c}]
       \/ /\ op.board \notin Bluetooth
          /\ op' = [op EXCEPT !.at = "remove", !.known = FALSE]
    /\ UNCHANGED <<node, off, store, outcome, moved, events>>

Remove == op.at = "remove" /\ RemoveDevice(op.board) /\ Goes("delete") /\ UNCHANGED store

\* Mutant of Delete: an unknown answer counts as "not in the store".
Delete_Unknown ==
    /\ op.at = "delete"
    /\ DeleteDriver(op.oem) /\ Goes("scan")

\* Published, or not in the store: on to the rescan.  Unknown: stop before it.
Delete ==
    /\ op.at = "delete"
    /\ IF op.known
       THEN DeleteDriver(op.oem) /\ Goes("scan")
       ELSE Ends("unconfirmed") /\ UNCHANGED <<node, store>>

Scan ==
    /\ op.at = "scan"
    /\ ScanDevices
    /\ Ends(IF op.verb = "claim" THEN "claimed" ELSE "released")
    /\ UNCHANGED store

Next ==
    \/ \E b \in Boards : Plug(b) \/ Unplug(b) \/ Switch(b) \/ RollBack(b)
    \/ \E b \in Boards : StartClaim(b) \/ \E force \in BOOLEAN : StartRelease(b, force)
    \/ Fails \/ WriteInf \/ Add \/ Enumerate \/ Remove \/ Delete \/ Scan

Spec == Init /\ [][Next]_vars

----------------------------------------------------------------------------
TypeOK ==
    /\ node \in [Boards -> {"absent", "removed", "hid", "winusb"}]
    /\ off \subseteq Boards
    /\ store \subseteq [model : {Model[b] : b \in Boards}, text : Texts]
    /\ op.verb \in {"none", "claim", "release"} /\ op.oem \subseteq store \cup op.oem
    /\ outcome \in {"none", "failed", "unconfirmed", "claimed", "released"}

\* As long as nothing moved since the survey, a claim takes the board it was
\* asked to take and no other of the tree, and leaves a keyboard that can type: a second
\* board of the model, a claimed, a disabled or an unconnected one is not
\* mistaken for a spare (plan_claim's refusals).
ClaimTakesOne ==
    [][op.verb = "claim" /\ ~moved' =>
         /\ \A b \in Boards \ {op.board} : InTree(b) => node'[b] = node[b]
         /\ Usable' # {}]_vars

\* A release that says it released the board gave it back: whatever failed or
\* was rolled back by hand before, the rescan did not bind WinUSB to it again
\* (apply_release's order, and its stop when the store could not be read).
ReleaseTellsTruth ==
    [][op.at = "scan" /\ outcome' = "released" => node'[op.board] # "winusb"]_vars
=============================================================================
