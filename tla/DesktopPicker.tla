----------------------------- MODULE DesktopPicker -----------------------------
(***************************************************************************)
(* The desktop Picker (apps/desktop/src-tauri/src/main.rs): its settings    *)
(* file, the origins granted access to the shell, the global shortcut, the  *)
(* update it offers in the tray menu, and the link it pastes.               *)
(*                                                                          *)
(* A command that is not async runs on the main thread, one at a time, and   *)
(* is one step where nobody else can tell.  Saving the settings is several:  *)
(* between two of its calls other programs take and release shortcuts.       *)
(* Checking for an update, installing it and pasting run beside commands.    *)
(* Where a window stands and whether the system starts the Picker are read   *)
(* by nothing here and left out; a command whose reading of the file fails   *)
(* ends there.                                                              *)
(***************************************************************************)
EXTENDS Naturals, FiniteSets

CONSTANTS
    Url,          \* server URLs after normalize_server_url
    Origin,       \* of each the origin, or None where it has none
    Shortcut, DefaultKey,
    Link,         \* what users paste
    Check, Paste, \* checks for an update, and pastes, at once
    None, Torn,   \* no file, no value; a file that does not parse
    MostSteps     \* bound: what users and other programs do

Config == [url: Url \cup {None}, hotkey: Shortcut \cup {None}]
Event  == {"shown", "copied"}

Origins == {Origin[url] : url \in Url} \ {None}
Pasting == [pc: {"idle", "hide", "wait"}, link: Link \cup {None}, crossed: SUBSET Event]
Past    == [replaced: SUBSET Origins, strays: Nat, refused: BOOLEAN,
            failed: BOOLEAN, unshown: BOOLEAN]

ASSUME DesktopAssumption ==
    /\ DefaultKey \in Shortcut /\ IsFiniteSet(Shortcut)
    /\ None \notin Config \cup Url \cup Shortcut \cup Link
    /\ Torn \notin Config \cup {None}
    /\ MostSteps \in Nat

VARIABLES
    file,       \* config.json
    up,         \* the Picker runs
    granted,    \* origins with the capability; additive, gone with the process
    registered, \* shortcuts the Picker holds
    save,       \* save_settings: "ask" for the new shortcut, or for the old one "back"
    taken,      \* shortcuts the system refuses: other programs hold them
    menu,       \* what the tray offers: "check" for updates, or restart to "update"
    pending,    \* PendingUpdate holds one
    check,      \* where each check stands
    installing, \* downloads under way
    shown,      \* the main window
    clipboard,
    paste,      \* where each pasting thread stands
    past,       \* history of this process
    left        \* steps users and other programs have yet to take

system   == <<granted, registered, save>>
updates  == <<menu, pending, check, installing>>
window   == <<shown, clipboard, paste>>
vars     == <<file, up, system, taken, updates, window, past, left>>

\* unwrap_or_default
Default   == [url |-> None, hotkey |-> None]
Read(f)   == IF f \in {None, Torn} THEN Default ELSE f
Wanted(f) == IF Read(f).hotkey = None THEN DefaultKey ELSE Read(f).hotkey

\* remote_origin_pattern: what grant_remote_capability_for_server_url adds.
Grant(url)   == IF url = None THEN {} ELSE {Origin[url]} \ {None}
OriginsOf(f) == Grant(Read(f).url)

NoPaste == [pc |-> "idle", link |-> None, crossed |-> {}]
NoPast  == [replaced |-> {}, strays |-> 0, refused |-> FALSE, failed |-> FALSE, unshown |-> FALSE]

Spend   == left > 0 /\ left' = left - 1
Command == up /\ save = "idle" /\ Spend

-----------------------------------------------------------------------------
(* The process starts and ends *)

\* Mutant: the default's refusal goes unnoticed.
StartKeysAnyway(f) == IF Wanted(f) \notin taken THEN {Wanted(f)} ELSE {DefaultKey}

\* The saved shortcut, or the default where the system refuses it.
StartKeys(f) == IF Wanted(f) \notin taken THEN {Wanted(f)} ELSE {DefaultKey} \ taken

\* main over file f; one check for updates starts by itself.
StartsOver(f) ==
    /\ up' = TRUE
    /\ granted' = OriginsOf(f)
    /\ registered' = StartKeys(f) /\ save' = "idle"
    /\ menu' = "check" /\ pending' = FALSE /\ installing' = 0
    /\ \E c \in Check : check' = [d \in Check |-> IF d = c THEN "asking" ELSE "idle"]
    /\ shown' = FALSE /\ paste' = [p \in Paste |-> NoPaste]
    /\ past' = [NoPast EXCEPT !.strays = Cardinality(StartKeys(f) \ {Wanted(f)}),
                              !.refused = {Wanted(f), DefaultKey} \subseteq taken]
    /\ UNCHANGED <<taken, clipboard>>

Init ==
    /\ file \in Config \cup {None} /\ clipboard = None /\ taken \in SUBSET Shortcut /\ left = MostSteps
    /\ up = FALSE /\ granted = {} /\ registered = {} /\ save = "idle"
    /\ menu = "check" /\ pending = FALSE /\ installing = 0 /\ check = [c \in Check |-> "idle"]
    /\ shown = FALSE /\ paste = [p \in Paste |-> NoPaste] /\ past = NoPast

Start == ~up /\ Spend /\ StartsOver(file) /\ UNCHANGED file

\* Quit in the tray, or the process dies.
Quit ==
    /\ up /\ Spend
    /\ up' = FALSE /\ granted' = {} /\ registered' = {} /\ save' = "idle"
    /\ menu' = "check" /\ pending' = FALSE /\ installing' = 0 /\ check' = [c \in Check |-> "idle"]
    /\ shown' = FALSE /\ paste' = [p \in Paste |-> NoPaste] /\ past' = NoPast
    /\ UNCHANGED <<file, taken, clipboard>>

\* Another program registers a shortcut, or lets go of one.
OtherProgram ==
    /\ Spend
    /\ \E k \in Shortcut \ registered : taken' = IF k \in taken THEN taken \ {k} ELSE taken \cup {k}
    /\ UNCHANGED <<file, up, system, updates, window, past>>

-----------------------------------------------------------------------------
(* Settings *)

\* fs::write fails before or after it empties the file.
WriteFails == file' \in {file, Torn}

\* History: origins no longer configured, shortcuts no longer in the settings.
Outdates(strays, refused) ==
    past' = [past EXCEPT !.replaced = @ \cup (OriginsOf(file) \ OriginsOf(file')),
                         !.strays = @ + strays, !.refused = refused]

Lost == IF Wanted(file') = Wanted(file) THEN 0 ELSE 1

SetServerUrl ==
    /\ Command
    /\ \E url \in Url :
          \/ file' = [Read(file) EXCEPT !.url = url] /\ granted' = granted \cup Grant(url)
          \/ WriteFails /\ UNCHANGED granted
    /\ Outdates(Lost, past.refused)
    /\ UNCHANGED <<up, registered, save, taken, updates, window>>

\* The file is read and written whole.
SaveWindowPosition ==
    /\ Command
    /\ file' = Read(file) \/ WriteFails
    /\ Outdates(Lost, past.refused)
    /\ UNCHANGED <<up, system, taken, updates, window>>

\* Mutant: a changed URL takes effect without a restart.
NeverRestarts(url) == FALSE

RestartsFor(url) == url # None /\ url # Read(file).url

Refuses(k) == k \in taken \cup registered

\* The configured shortcut is let go; that this may fail is ignored.
SaveBegins ==
    /\ Command
    /\ save' = "ask"
    /\ \/ registered' = registered \ {Wanted(file)} /\ UNCHANGED past
       \/ past' = [past EXCEPT !.strays = @ + 1] /\ UNCHANGED registered
    /\ UNCHANGED <<file, up, granted, taken, updates, window>>

SaveRefused ==
    /\ save = "ask" /\ \E k \in Shortcut : Refuses(k)
    /\ save' = "back"
    /\ UNCHANGED <<file, up, granted, registered, taken, updates, window, past, left>>

\* Mutant: the old one is not asked for again.
RollBackNot ==
    /\ save = "back"
    /\ save' = "idle"
    /\ past' = [past EXCEPT !.refused = Wanted(file) \in taken]
    /\ UNCHANGED <<file, up, granted, registered, taken, updates, window, left>>

\* The old one is asked for again; that this may be refused is ignored.
RollBack ==
    /\ save = "back"
    /\ save' = "idle"
    /\ registered' = registered \cup ({Wanted(file)} \ taken)
    /\ past' = [past EXCEPT !.refused = Wanted(file) \in taken]
    /\ UNCHANGED <<file, up, granted, taken, updates, window, left>>

\* Switching the start at login or writing the file fails after the swap.
SaveFails ==
    /\ save = "ask"
    /\ save' = "idle"
    /\ \E k \in Shortcut : ~Refuses(k) /\ registered' = registered \cup {k}
    /\ WriteFails
    /\ Outdates(1, FALSE)
    /\ UNCHANGED <<up, granted, taken, updates, window, left>>

SaveSettings ==
    /\ save = "ask"
    /\ \E k \in Shortcut, url \in Url \cup {None} :
          /\ ~Refuses(k)
          /\ file' = [url |-> url, hotkey |-> k]
          /\ IF RestartsFor(url) THEN StartsOver(file')
             ELSE /\ save' = "idle"
                  /\ registered' = registered \cup {k}
                  /\ Outdates(0, FALSE)
                  /\ UNCHANGED <<up, granted, taken, updates, window>>
    /\ UNCHANGED left

-----------------------------------------------------------------------------
(* Updates *)

CheckForUpdates(c) ==
    /\ Command /\ menu = "check" /\ check[c] = "idle"
    /\ check' = [check EXCEPT ![c] = "asking"]
    /\ UNCHANGED <<file, up, system, taken, menu, pending, installing, window, past>>

NoUpdate(c) ==
    /\ check[c] = "asking"
    /\ check' = [check EXCEPT ![c] = "idle"]
    /\ UNCHANGED <<file, up, system, taken, menu, pending, installing, window, past, left>>

\* Mutant: the menu first, then the update.
OfferThenStore(c) ==
    /\ check[c] = "asking"
    /\ check' = [check EXCEPT ![c] = "found"] /\ menu' = "update"
    /\ UNCHANGED <<file, up, system, taken, pending, installing, window, past, left>>

StoreUpdate(c) ==
    /\ check[c] = "asking"
    /\ check' = [check EXCEPT ![c] = "found"] /\ pending' = TRUE
    /\ UNCHANGED <<file, up, system, taken, menu, installing, window, past, left>>

\* rebuild_tray_menu, on the main thread; its failures are ignored.
OfferUpdate(c) ==
    /\ check[c] = "found" /\ save = "idle"
    /\ check' = [check EXCEPT ![c] = "idle"]
    /\ \/ menu' = "update" /\ UNCHANGED past
       \/ past' = [past EXCEPT !.unshown = TRUE] /\ UNCHANGED menu
    /\ UNCHANGED <<file, up, system, taken, pending, installing, window, left>>

\* A click that finds none pending does nothing.
RestartToUpdate ==
    /\ Command /\ menu = "update" /\ pending
    /\ pending' = FALSE /\ installing' = installing + 1
    /\ UNCHANGED <<file, up, system, taken, menu, check, window, past>>

\* Some installers end the process where it stands.
Installed == installing > 0 /\ StartsOver(file) /\ UNCHANGED <<file, left>>

InstallFails ==
    /\ installing > 0 /\ installing' = installing - 1
    /\ past' = [past EXCEPT !.failed = TRUE]
    /\ UNCHANGED <<file, up, system, taken, menu, pending, check, window, left>>

-----------------------------------------------------------------------------
(* The window and pasting *)

CrossedBy(event, pastes) ==
    [p \in Paste |-> IF pastes[p].pc = "idle" THEN pastes[p]
                     ELSE [pastes[p] EXCEPT !.crossed = @ \cup event]]

\* The shortcut, or a click on the tray.
ToggleWindow ==
    /\ Command
    /\ shown' = ~shown
    /\ paste' = CrossedBy(IF shown THEN {} ELSE {"shown"}, paste)
    /\ UNCHANGED <<file, up, system, taken, updates, clipboard, past>>

HideWindow ==
    /\ Command /\ shown /\ shown' = FALSE
    /\ UNCHANGED <<file, up, system, taken, updates, clipboard, paste, past>>

\* copy_and_paste_link; without the permission to paste the link is only copied.
CopyAndPasteLink ==
    /\ Command
    /\ \E l \in Link :
          LET crossed == CrossedBy({"copied"}, paste) IN
          /\ clipboard' = l
          /\ \/ paste' = crossed
             \/ \E p \in Paste :
                   /\ paste[p].pc = "idle"
                   /\ paste' = [crossed EXCEPT ![p] = [pc |-> "hide", link |-> l, crossed |-> {}]]
    /\ UNCHANGED <<file, up, system, taken, updates, shown, past>>

\* Mutant: the window stays.
PasteInPlace(p) ==
    /\ paste[p].pc = "hide" /\ save = "idle"
    /\ paste' = [paste EXCEPT ![p].pc = "wait"]
    /\ UNCHANGED <<file, up, system, taken, updates, shown, clipboard, past, left>>

\* 250 ms are enough for the main thread to hide the window.
HideToPaste(p) ==
    /\ paste[p].pc = "hide" /\ save = "idle"
    /\ shown' = FALSE
    /\ paste' = [paste EXCEPT ![p].pc = "wait"]
    /\ UNCHANGED <<file, up, system, taken, updates, clipboard, past, left>>

PasteKeys(p) ==
    /\ paste[p].pc = "wait"
    /\ paste' = [paste EXCEPT ![p] = NoPaste]
    /\ UNCHANGED <<file, up, system, taken, updates, shown, clipboard, past, left>>

-----------------------------------------------------------------------------
Next ==
    \/ Start \/ Quit \/ OtherProgram
    \/ SetServerUrl \/ SaveWindowPosition
    \/ SaveBegins \/ SaveRefused \/ RollBack \/ SaveFails \/ SaveSettings
    \/ \E c \in Check : CheckForUpdates(c) \/ NoUpdate(c) \/ StoreUpdate(c) \/ OfferUpdate(c)
    \/ RestartToUpdate \/ Installed \/ InstallFails
    \/ ToggleWindow \/ HideWindow \/ CopyAndPasteLink
    \/ \E p \in Paste : HideToPaste(p) \/ PasteKeys(p)

Spec == Init /\ [][Next]_vars

-----------------------------------------------------------------------------
(* Properties *)

\* Every value has its type, and the system gives a shortcut to one program.
TypeOK ==
    /\ file \in Config \cup {None, Torn}
    /\ up \in BOOLEAN /\ shown \in BOOLEAN /\ pending \in BOOLEAN
    /\ granted \in SUBSET Origins
    /\ registered \in SUBSET Shortcut /\ taken \in SUBSET Shortcut /\ registered \cap taken = {}
    /\ save \in {"idle", "ask", "back"}
    /\ menu \in {"check", "update"} /\ installing \in Nat /\ left \in Nat
    /\ check \in [Check -> {"idle", "asking", "found"}]
    /\ clipboard \in Link \cup {None}
    /\ paste \in [Paste -> Pasting] /\ past \in Past

\* The origin of the configured server has its grant, and any other that has one
\* was configured in this process and replaced by a command that does not restart
\* it: set_server_url, or a save that clears the URL.
GrantsFollowConfig ==
    up => OriginsOf(file) \subseteq granted /\ granted \ OriginsOf(file) \subseteq past.replaced

\* Shortcuts in force that the settings do not name are no more than the starts
\* that fell back, the shortcuts the system would not take back, the saves that
\* failed after the swap and the files torn.  And a Picker that is not saving has
\* a shortcut unless the last it asked for was refused: at the start both the
\* configured one and the default, in a save the old one, taken meanwhile.
ShortcutsAccountedFor ==
    up => /\ Cardinality(registered \ {Wanted(file)}) <= past.strays
          /\ save = "idle" /\ registered = {} => past.refused

\* "Restart to update" has an update behind it, waiting or being installed, until
\* an install fails; and an update that waits is offered, or about to be, unless
\* the menu could not be rebuilt.
OfferIsBacked ==
    up => /\ menu = "update" => pending \/ installing > 0 \/ past.failed
          /\ pending => menu = "update" \/ past.unshown \/ \E c \in Check : check[c] = "found"

\* A thread about to press the paste keys has its own link on the clipboard and
\* the window out of the way, but for a copy or a show that crossed it.
PasteHitsItsTarget ==
    \A p \in Paste : paste[p].pc = "wait" =>
        /\ shown => "shown" \in paste[p].crossed
        /\ clipboard # paste[p].link => "copied" \in paste[p].crossed
=============================================================================
