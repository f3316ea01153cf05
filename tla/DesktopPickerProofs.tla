-------------------------- MODULE DesktopPickerProofs --------------------------
(***************************************************************************)
(* Proofs about DesktopPicker: its type invariant and its four safety        *)
(* properties, for any servers, shortcuts, links, checks and pastes, and any *)
(* number of steps.                                                          *)
(***************************************************************************)
EXTENDS DesktopPicker, FiniteSetTheorems, TLAPS

-----------------------------------------------------------------------------
(* What is read from the settings file *)

AnyFile == Config \cup {None, Torn}

LEMMA ReadIsConfig ==
    ASSUME NEW f \in AnyFile
    PROVE  Read(f) \in Config /\ Read(Read(f)) = Read(f)
BY DesktopAssumption DEF AnyFile, Read, Default, Config

LEMMA ReadOfConfig == \A f \in Config : Read(f) = f
BY DesktopAssumption DEF Read

LEMMA WantedIsShortcut == \A f \in AnyFile : Wanted(f) \in Shortcut
BY ReadIsConfig, DesktopAssumption DEF Wanted, Config

LEMMA OriginsAreOrigins == \A f \in AnyFile : OriginsOf(f) \in SUBSET Origins
BY ReadIsConfig DEF OriginsOf, Grant, Origins, Config

\* A torn file, or none, names no server.
LEMMA TornNamesNone == OriginsOf(Torn) = {}
BY DEF OriginsOf, Grant, Read, Default

LEMMA StrayCount ==
    ASSUME NEW S \in SUBSET Shortcut, NEW k
    PROVE  IsFiniteSet(S) /\ IsFiniteSet(S \ {k}) /\ Cardinality(S \ {k}) \in Nat
<1>1. IsFiniteSet(S)
  BY FS_Subset, DesktopAssumption
<1> QED
  BY <1>1, FS_RemoveElement, FS_CardinalityType

LEMMA KeysAtStart ==
    ASSUME NEW f \in AnyFile, taken \in SUBSET Shortcut
    PROVE  /\ StartKeys(f) \in SUBSET Shortcut
           /\ StartKeys(f) \cap taken = {}
           /\ Cardinality(StartKeys(f) \ {Wanted(f)}) \in Nat
<1>1. StartKeys(f) \in SUBSET Shortcut /\ StartKeys(f) \cap taken = {}
  BY WantedIsShortcut, DesktopAssumption DEF StartKeys
<1> QED
  BY <1>1, StrayCount

-----------------------------------------------------------------------------
(* Types *)

LEMMA NoPasteType == NoPaste \in Pasting
BY DEF NoPaste, Pasting, Event

LEMMA NoPastType == NoPast \in Past
BY DEF NoPast, Past

LEMMA InitTypes == Init => TypeOK
<1> SUFFICES ASSUME Init PROVE TypeOK
  OBVIOUS
<1>1. paste \in [Paste -> Pasting]
  BY NoPasteType DEF Init
<1>2. past \in Past
  BY NoPastType DEF Init
<1> QED
  BY <1>1, <1>2, DesktopAssumption DEF Init, TypeOK

\* The process starts over from a file of its type.
LEMMA StartKeepsTypes ==
    ASSUME TypeOK, file' \in AnyFile, StartsOver(file'), left' \in Nat
    PROVE  TypeOK'
<1>1. /\ StartKeys(file') \in SUBSET Shortcut
      /\ StartKeys(file') \cap taken = {}
      /\ Cardinality(StartKeys(file') \ {Wanted(file')}) \in Nat
  BY KeysAtStart DEF TypeOK
<1>2. OriginsOf(file') \in SUBSET Origins
  BY OriginsAreOrigins
<1>3. past' \in Past
  BY <1>1, NoPastType DEF StartsOver, Past
<1>4. paste' \in [Paste -> Pasting]
  BY NoPasteType DEF StartsOver
<1>5. check' \in [Check -> {"idle", "asking", "found"}]
  BY DEF StartsOver
<1> QED
  BY <1>1, <1>2, <1>3, <1>4, <1>5 DEF StartsOver, TypeOK, AnyFile

\* The history of a process gains origins and strays.
LEMMA PastKeepsType ==
    ASSUME TypeOK, file' \in AnyFile, NEW n \in Nat, NEW r \in BOOLEAN, Outdates(n, r)
    PROVE  past' \in Past
<1> DEFINE gone == OriginsOf(file) \ OriginsOf(file')
<1>1. past \in Past /\ gone \in SUBSET Origins
  BY OriginsAreOrigins DEF TypeOK, AnyFile
<1>2. past' = [past EXCEPT !.replaced = @ \cup gone, !.strays = @ + n, !.refused = r]
  BY DEF Outdates
<1> HIDE DEF gone
<1>3. past.replaced \cup gone \in SUBSET Origins /\ past.strays + n \in Nat
  BY <1>1 DEF Past
<1> QED
  BY <1>1, <1>2, <1>3 DEF Past

LEMMA CrossedType ==
    ASSUME TypeOK, NEW event \in SUBSET Event
    PROVE  CrossedBy(event, paste) \in [Paste -> Pasting]
BY DEF TypeOK, CrossedBy, Pasting

LEMMA StepKeepsTypes ==
    ASSUME TypeOK, [Next]_vars
    PROVE  TypeOK'
<1> USE DEF AnyFile
<1>1. CASE Start
  BY <1>1, StartKeepsTypes DEF Start, Spend, TypeOK
<1>2. CASE Quit
  <2>1. paste' \in [Paste -> Pasting] /\ past' \in Past
    BY <1>2, NoPasteType, NoPastType DEF Quit
  <2>2. check' \in [Check -> {"idle", "asking", "found"}]
    BY <1>2 DEF Quit
  <2>3. left' \in Nat
    BY <1>2 DEF Quit, Spend, TypeOK
  <2> QED
    BY <1>2, <2>1, <2>2, <2>3 DEF Quit, TypeOK
<1>3. CASE OtherProgram
  BY <1>3 DEF OtherProgram, Spend, TypeOK, system, updates, window
<1>4. CASE SetServerUrl
  <2>1. file' \in AnyFile /\ granted' \in SUBSET Origins
    BY <1>4, ReadIsConfig DEF SetServerUrl, WriteFails, TypeOK, Config, Grant, Origins
  <2>2. Lost \in Nat /\ past.refused \in BOOLEAN
    BY DEF Lost, TypeOK, Past
  <2>3. past' \in Past
    BY <1>4, <2>1, <2>2, PastKeepsType DEF SetServerUrl
  <2> QED
    BY <1>4, <2>1, <2>3 DEF SetServerUrl, Command, Spend, TypeOK, updates, window
<1>5. CASE SaveWindowPosition
  <2>1. file' \in AnyFile
    BY <1>5, ReadIsConfig DEF SaveWindowPosition, WriteFails, TypeOK
  <2>2. Lost \in Nat /\ past.refused \in BOOLEAN
    BY DEF Lost, TypeOK, Past
  <2>3. past' \in Past
    BY <1>5, <2>1, <2>2, PastKeepsType DEF SaveWindowPosition
  <2> QED
    BY <1>5, <2>1, <2>3 DEF SaveWindowPosition, Command, Spend, TypeOK, system, updates, window
<1>6. CASE SaveBegins \/ SaveRefused \/ RollBack
  <2>1. past \in Past /\ Wanted(file) \in Shortcut
    BY WantedIsShortcut DEF TypeOK
  <2>2. past' \in Past
    <3>1. CASE SaveBegins
      BY <2>1, <3>1 DEF SaveBegins, Past
    <3>2. CASE SaveRefused
      BY <2>1, <3>2 DEF SaveRefused
    <3>3. CASE RollBack
      <4> DEFINE r == Wanted(file) \in taken
      <4>1. r \in BOOLEAN /\ past' = [past EXCEPT !.refused = r]
        BY <3>3 DEF RollBack
      <4> HIDE DEF r
      <4> QED
        BY <2>1, <4>1 DEF Past
    <3> QED
      BY <1>6, <3>1, <3>2, <3>3
  <2>3. left' \in Nat
    BY <1>6 DEF SaveBegins, SaveRefused, RollBack, Command, Spend, TypeOK
  <2>4. registered' \in SUBSET Shortcut /\ registered' \cap taken = {}
    BY <1>6, <2>1 DEF SaveBegins, SaveRefused, RollBack, TypeOK
  <2> QED
    BY <1>6, <2>2, <2>3, <2>4 DEF SaveBegins, SaveRefused, RollBack, TypeOK, updates, window
<1>7. CASE SaveFails
  <2>1. file' \in AnyFile
    BY <1>7 DEF SaveFails, WriteFails, TypeOK
  <2>2. past' \in Past
    BY <1>7, <2>1, PastKeepsType DEF SaveFails
  <2>3. registered' \in SUBSET Shortcut /\ registered' \cap taken = {}
    BY <1>7 DEF SaveFails, Refuses, TypeOK
  <2> QED
    BY <1>7, <2>1, <2>2, <2>3 DEF SaveFails, TypeOK, updates, window
<1>8. CASE SaveSettings
  <2>1. PICK k \in Shortcut, url \in Url \cup {None} :
          /\ ~Refuses(k)
          /\ file' = [url |-> url, hotkey |-> k]
          /\ IF RestartsFor(url) THEN StartsOver(file')
             ELSE /\ save' = "idle"
                  /\ registered' = registered \cup {k}
                  /\ Outdates(0, FALSE)
                  /\ UNCHANGED <<up, granted, taken, updates, window>>
    BY <1>8 DEF SaveSettings
  <2>2. file' \in AnyFile /\ left' \in Nat
    BY <1>8, <2>1 DEF SaveSettings, Config, TypeOK
  <2>3. CASE RestartsFor(url)
    BY <2>1, <2>2, <2>3, StartKeepsTypes
  <2>4. CASE ~RestartsFor(url)
    <3>1. past' \in Past
      BY <2>1, <2>2, <2>4, PastKeepsType
    <3>2. registered' \in SUBSET Shortcut /\ registered' \cap taken = {}
      BY <2>1, <2>4 DEF Refuses, TypeOK
    <3> QED
      BY <2>1, <2>2, <2>4, <3>1, <3>2 DEF TypeOK, updates, window
  <2> QED
    BY <2>3, <2>4
<1>9. ASSUME NEW c \in Check, CheckForUpdates(c) \/ NoUpdate(c) \/ StoreUpdate(c) \/ OfferUpdate(c)
      PROVE  TypeOK'
  <2>1. CASE CheckForUpdates(c)
    BY <2>1 DEF CheckForUpdates, Command, Spend, TypeOK, system, window
  <2>2. CASE NoUpdate(c)
    BY <2>2 DEF NoUpdate, TypeOK, system, window
  <2>3. CASE StoreUpdate(c)
    BY <2>3 DEF StoreUpdate, TypeOK, system, window
  <2>4. CASE OfferUpdate(c)
    <3>1. past' \in Past
      BY <2>4 DEF OfferUpdate, Past, TypeOK
    <3> QED
      BY <2>4, <3>1 DEF OfferUpdate, TypeOK, system, window
  <2> QED
    BY <1>9, <2>1, <2>2, <2>3, <2>4
<1>10. CASE RestartToUpdate
  <2>1. left' \in Nat /\ installing' \in Nat
    BY <1>10 DEF RestartToUpdate, Command, Spend, TypeOK
  <2> QED
    BY <1>10, <2>1 DEF RestartToUpdate, TypeOK, system, window
<1>11. CASE Installed
  BY <1>11, StartKeepsTypes DEF Installed, TypeOK
<1>12. CASE InstallFails
  <2>1. installing' \in Nat
    BY <1>12 DEF InstallFails, TypeOK
  <2>2. past' \in Past
    BY <1>12 DEF InstallFails, Past, TypeOK
  <2> QED
    BY <1>12, <2>1, <2>2 DEF InstallFails, TypeOK, system, window
<1>13. CASE ToggleWindow
  <2>1. paste' \in [Paste -> Pasting]
    BY <1>13, CrossedType DEF ToggleWindow, Event
  <2> QED
    BY <1>13, <2>1 DEF ToggleWindow, Command, Spend, TypeOK, system, updates
<1>14. CASE HideWindow
  <2>1. left' \in Nat
    BY <1>14 DEF HideWindow, Command, Spend, TypeOK
  <2> QED
    BY <1>14, <2>1 DEF HideWindow, TypeOK, system, updates
<1>15. CASE CopyAndPasteLink
  <2>1. CrossedBy({"copied"}, paste) \in [Paste -> Pasting]
    BY CrossedType DEF Event
  <2> QED
    BY <1>15, <2>1 DEF CopyAndPasteLink, Pasting, Command, Spend, TypeOK, system, updates
<1>16. ASSUME NEW p \in Paste, HideToPaste(p) \/ PasteKeys(p)
       PROVE  TypeOK'
  <2>1. paste' \in [Paste -> Pasting]
    BY <1>16, NoPasteType DEF HideToPaste, PasteKeys, Pasting, TypeOK
  <2>2. CASE HideToPaste(p)
    BY <2>1, <2>2 DEF HideToPaste, TypeOK, system, updates
  <2>3. CASE PasteKeys(p)
    BY <2>1, <2>3 DEF PasteKeys, TypeOK, system, updates
  <2> QED
    BY <1>16, <2>2, <2>3
<1>17. CASE UNCHANGED vars
  BY <1>17 DEF vars, TypeOK, system, updates, window
<1> QED
  BY <1>1, <1>2, <1>3, <1>4, <1>5, <1>6, <1>7, <1>8, <1>9, <1>10, <1>11, <1>12, <1>13,
     <1>14, <1>15, <1>16, <1>17 DEF Next

\* Type correctness: whatever users, other programs, update checks and pastes do,
\* every variable keeps its type, and no shortcut is held by two programs.
THEOREM TypeCorrect == Spec => []TypeOK
<1>1. Init => TypeOK
  BY InitTypes
<1>2. TypeOK /\ [Next]_vars => TypeOK'
  BY StepKeepsTypes
<1> QED
  BY <1>1, <1>2, PTL DEF Spec

-----------------------------------------------------------------------------
(* Grants *)

\* Writing the file, or failing to, outdates no grant that the history misses.
LEMMA GrantsKept ==
    ASSUME GrantsFollowConfig, past \in Past, NEW n, NEW r, Outdates(n, r), UNCHANGED up,
           \/ OriginsOf(file') \subseteq OriginsOf(file) /\ UNCHANGED granted
           \/ granted' = granted \cup OriginsOf(file')
    PROVE  GrantsFollowConfig'
<1>1. past'.replaced = past.replaced \cup (OriginsOf(file) \ OriginsOf(file'))
  BY DEF Outdates, Past
<1> QED
  BY <1>1 DEF GrantsFollowConfig

LEMMA FailedWriteKeepsOrigins ==
    ASSUME WriteFails PROVE OriginsOf(file') \subseteq OriginsOf(file)
BY TornNamesNone DEF WriteFails

LEMMA StepKeepsGrants ==
    ASSUME TypeOK, GrantsFollowConfig, [Next]_vars
    PROVE  GrantsFollowConfig'
<1>1. ASSUME StartsOver(file') PROVE GrantsFollowConfig'
  BY <1>1 DEF StartsOver, GrantsFollowConfig
<1>2. CASE Start \/ Installed
  BY <1>1, <1>2 DEF Start, Installed
<1>3. CASE Quit
  BY <1>3 DEF Quit, GrantsFollowConfig
<1>4. CASE SetServerUrl
  <2>1. PICK url \in Url :
          \/ file' = [Read(file) EXCEPT !.url = url] /\ granted' = granted \cup Grant(url)
          \/ WriteFails /\ UNCHANGED granted
    BY <1>4 DEF SetServerUrl
  <2>2. ASSUME file' = [Read(file) EXCEPT !.url = url] PROVE OriginsOf(file') = Grant(url)
    <3>1. Read(file) \in Config
      BY ReadIsConfig DEF TypeOK, AnyFile
    <3>2. file' \in Config /\ file'.url = url
      BY <2>2, <3>1 DEF Config
    <3> QED
      BY <3>2, ReadOfConfig DEF OriginsOf
  <2> QED
    BY <1>4, <2>1, <2>2, GrantsKept, FailedWriteKeepsOrigins DEF SetServerUrl, TypeOK
<1>5. CASE SaveWindowPosition
  <2>1. OriginsOf(Read(file)) = OriginsOf(file)
    BY ReadIsConfig DEF TypeOK, AnyFile, OriginsOf
  <2> QED
    BY <1>5, <2>1, GrantsKept, FailedWriteKeepsOrigins DEF SaveWindowPosition, TypeOK, system
<1>6. CASE SaveFails
  BY <1>6, GrantsKept, FailedWriteKeepsOrigins DEF SaveFails, TypeOK
<1>7. CASE SaveSettings
  <2>1. PICK k \in Shortcut, url \in Url \cup {None} :
          /\ file' = [url |-> url, hotkey |-> k]
          /\ IF RestartsFor(url) THEN StartsOver(file')
             ELSE Outdates(0, FALSE) /\ UNCHANGED <<up, granted>>
    BY <1>7 DEF SaveSettings
  <2>2. CASE RestartsFor(url)
    BY <1>1, <2>1, <2>2
  <2>3. CASE ~RestartsFor(url)
    <3>1. file' \in Config /\ file'.url = url
      BY <2>1 DEF Config
    <3>2. url = None \/ url = Read(file).url
      BY <2>3 DEF RestartsFor
    <3>3. OriginsOf(file') \subseteq OriginsOf(file)
      BY <3>1, <3>2, ReadOfConfig DEF OriginsOf, Grant
    <3> QED
      BY <2>1, <2>3, <3>3, GrantsKept DEF TypeOK
  <2> QED
    BY <2>2, <2>3
<1>8. ASSUME UNCHANGED <<file, up, granted, past>> PROVE GrantsFollowConfig'
  BY <1>8 DEF GrantsFollowConfig
<1>9. ASSUME SaveBegins \/ RollBack \/ InstallFails \/ \E c \in Check : OfferUpdate(c)
      PROVE  GrantsFollowConfig'
  <2>1. past'.replaced = past.replaced
    BY <1>9 DEF SaveBegins, RollBack, InstallFails, OfferUpdate, TypeOK, Past
  <2> QED
    BY <1>9, <2>1 DEF SaveBegins, RollBack, InstallFails, OfferUpdate, GrantsFollowConfig, system
<1>10. CASE OtherProgram \/ SaveRefused \/ RestartToUpdate \/ ToggleWindow \/ HideWindow \/ CopyAndPasteLink
  BY <1>8, <1>10 DEF OtherProgram, SaveRefused, RestartToUpdate, ToggleWindow, HideWindow, CopyAndPasteLink, system
<1>11. ASSUME NEW c \in Check, CheckForUpdates(c) \/ NoUpdate(c) \/ StoreUpdate(c)
       PROVE  GrantsFollowConfig'
  BY <1>8, <1>11 DEF CheckForUpdates, NoUpdate, StoreUpdate, system
<1>12. ASSUME NEW p \in Paste, HideToPaste(p) \/ PasteKeys(p)
       PROVE  GrantsFollowConfig'
  BY <1>8, <1>12 DEF HideToPaste, PasteKeys, system
<1>13. CASE UNCHANGED vars
  BY <1>8, <1>13 DEF vars, system
<1> QED
  BY <1>2, <1>3, <1>4, <1>5, <1>6, <1>7, <1>9, <1>10, <1>11, <1>12, <1>13 DEF Next

\* The configured server's origin is granted, and every other grant left is of a
\* server configured in this process and replaced without a restart.
THEOREM GrantsFollowTheConfig == Spec => []GrantsFollowConfig
<1>1. Init => GrantsFollowConfig
  BY DEF Init, GrantsFollowConfig
<1>2. TypeOK /\ GrantsFollowConfig /\ [Next]_vars => GrantsFollowConfig'
  BY StepKeepsGrants
<1> QED
  BY <1>1, <1>2, TypeCorrect, PTL DEF Spec

-----------------------------------------------------------------------------
(* Shortcuts *)

\* Where no more than one shortcut joins the stray ones, one is added to the count.
LEMMA OneMoreStray ==
    ASSUME NEW S \in SUBSET Shortcut, NEW T \in SUBSET Shortcut, NEW k, T \subseteq S \cup {k}
    PROVE  Cardinality(T) <= Cardinality(S) + 1
<1>1. IsFiniteSet(S) /\ Cardinality(S) \in Nat
  BY FS_Subset, FS_CardinalityType, DesktopAssumption
<1>2. /\ IsFiniteSet(S \cup {k})
      /\ Cardinality(S \cup {k}) <= Cardinality(S) + 1
  BY <1>1, FS_AddElement, SMTT(30)
<1>3. Cardinality(T) <= Cardinality(S \cup {k}) /\ Cardinality(T) \in Nat /\ Cardinality(S \cup {k}) \in Nat
  BY <1>2, FS_Subset, FS_CardinalityType
<1> QED
  BY <1>1, <1>2, <1>3

LEMMA FewerStrays ==
    ASSUME NEW S \in SUBSET Shortcut, NEW T \in SUBSET S
    PROVE  Cardinality(T) <= Cardinality(S) /\ Cardinality(T) \in Nat /\ Cardinality(S) \in Nat
<1>1. IsFiniteSet(S)
  BY FS_Subset, DesktopAssumption
<1> QED
  BY <1>1, FS_Subset, FS_CardinalityType

\* The strays of a process whose history goes on.
LEMMA StraysGrow ==
    ASSUME TypeOK, NEW n \in Nat, NEW r \in BOOLEAN, Outdates(n, r)
    PROVE  /\ past'.strays = past.strays + n
           /\ past'.refused = r
           /\ past'.failed = past.failed /\ past'.unshown = past.unshown
<1>1. past \in Past
  BY DEF TypeOK
<1> QED
  BY <1>1 DEF Outdates, Past

\* ShortcutsAccountedFor, and what it takes to let a save finish: the shortcut
\* in the settings counts as well while the save may replace it.
SaveCounted == save # "idle" => Cardinality(registered) <= past.strays
ShortcutInv == up => ShortcutsAccountedFor /\ SaveCounted

\* A command that writes the file and leaves the shortcuts alone.
LEMMA FileWritten ==
    ASSUME TypeOK, ShortcutInv, save = "idle", Outdates(Lost, past.refused),
           UNCHANGED <<up, registered, save>>
    PROVE  ShortcutInv'
<1> SUFFICES ASSUME up PROVE ShortcutInv'
  BY DEF ShortcutInv
<1> DEFINE S == registered \ {Wanted(file)}  T == registered \ {Wanted(file')}
<1>1. S \in SUBSET Shortcut /\ T \in SUBSET Shortcut /\ T \subseteq S \cup {Wanted(file)}
  BY DEF TypeOK
<1>2. Lost \in Nat /\ past.strays \in Nat /\ past.refused \in BOOLEAN
  BY DEF Lost, TypeOK, Past
<1>3. past'.strays = past.strays + Lost /\ past'.refused = past.refused
  BY <1>2, StraysGrow
<1>4. Cardinality(S) <= past.strays /\ (registered = {} => past.refused)
  BY DEF ShortcutInv, ShortcutsAccountedFor
<1>5. Cardinality(T) <= Cardinality(S) + Lost
  <2>1. CASE Wanted(file') = Wanted(file)
    BY <1>1, <2>1, FewerStrays DEF Lost
  <2>2. CASE Wanted(file') # Wanted(file)
    <3>1. Lost = 1
      BY <2>2 DEF Lost
    <3> HIDE DEF S, T
    <3> QED
      BY <1>1, <3>1, OneMoreStray
  <2> QED
    BY <2>1, <2>2
<1>6. Cardinality(T) <= past.strays + Lost
  <2>1. Cardinality(S) \in Nat /\ Cardinality(T) \in Nat
    BY <1>1, FewerStrays
  <2> HIDE DEF S, T
  <2> QED
    BY <1>2, <1>4, <1>5, <2>1
<1> QED
  BY <1>3, <1>4, <1>6 DEF ShortcutInv, ShortcutsAccountedFor, SaveCounted

LEMMA StartCounts ==
    ASSUME TypeOK, StartsOver(file'), file' \in AnyFile
    PROVE  ShortcutInv'
<1>1. /\ registered' = StartKeys(file') /\ save' = "idle"
      /\ past'.strays = Cardinality(StartKeys(file') \ {Wanted(file')})
      /\ past'.refused = ({Wanted(file'), DefaultKey} \subseteq taken)
  BY DEF StartsOver, NoPast
<1>2. registered' = {} => past'.refused
  BY <1>1 DEF StartKeys
<1>3. Cardinality(StartKeys(file') \ {Wanted(file')}) \in Nat
  BY KeysAtStart DEF TypeOK
<1>4. Cardinality(registered' \ {Wanted(file')}) <= past'.strays
  BY <1>1, <1>3
<1> QED
  BY <1>1, <1>2, <1>4 DEF ShortcutInv, ShortcutsAccountedFor, SaveCounted

LEMMA SaveBeginsCounts == ASSUME TypeOK, ShortcutInv, SaveBegins PROVE ShortcutInv'
<1> DEFINE S == registered \ {Wanted(file)}
<1>1. up /\ save = "idle" /\ save' = "ask" /\ UNCHANGED <<file, up>>
  BY DEF SaveBegins, Command
<1>2. S \in SUBSET Shortcut /\ registered \in SUBSET Shortcut /\ registered \subseteq S \cup {Wanted(file)}
  BY DEF TypeOK
<1>3. Cardinality(S) <= past.strays /\ past \in Past /\ past.strays \in Nat
  BY <1>1 DEF ShortcutInv, ShortcutsAccountedFor, TypeOK, Past
<1>4. CASE registered' = S /\ UNCHANGED past
  <2>1. registered' \ {Wanted(file)} = registered'
    BY <1>4
  <2> QED
    BY <1>1, <1>3, <1>4, <2>1 DEF ShortcutInv, ShortcutsAccountedFor, SaveCounted
<1>5. CASE past' = [past EXCEPT !.strays = @ + 1] /\ UNCHANGED registered
  <2>1. past'.strays = past.strays + 1
    BY <1>3, <1>5 DEF Past
  <2>2. Cardinality(registered) \in Nat /\ Cardinality(S) \in Nat
    BY <1>2, FewerStrays
  <2> HIDE DEF S
  <2>3. Cardinality(registered) <= Cardinality(S) + 1
    BY <1>2, OneMoreStray
  <2>4. Cardinality(registered) <= past'.strays /\ Cardinality(S) <= past'.strays
    BY <1>3, <2>1, <2>2, <2>3
  <2> QED
    BY <1>1, <1>5, <2>4 DEF S, ShortcutInv, ShortcutsAccountedFor, SaveCounted
<1> QED
  BY <1>4, <1>5 DEF SaveBegins

\* The old shortcut comes back, or its refusal is noted.
LEMMA RollBackCounts == ASSUME TypeOK, ShortcutInv, RollBack PROVE ShortcutInv'
<1> SUFFICES ASSUME up PROVE ShortcutInv'
  BY DEF RollBack, ShortcutInv
<1>1. save = "back" /\ save' = "idle" /\ UNCHANGED file
  BY DEF RollBack
<1>2. past'.strays = past.strays /\ past'.refused = (Wanted(file) \in taken)
  BY DEF RollBack, TypeOK, Past
<1>3. registered' \ {Wanted(file')} = registered \ {Wanted(file)}
  BY DEF RollBack
<1>4. registered' = {} => past'.refused
  BY <1>2 DEF RollBack
<1> QED
  BY <1>1, <1>2, <1>3, <1>4 DEF ShortcutInv, ShortcutsAccountedFor, SaveCounted

LEMMA SaveFailsCounts == ASSUME TypeOK, ShortcutInv, SaveFails PROVE ShortcutInv'
<1> SUFFICES ASSUME up PROVE ShortcutInv'
  BY DEF SaveFails, ShortcutInv
<1> DEFINE T == registered' \ {Wanted(file')}
<1>1. PICK k \in Shortcut : registered' = registered \cup {k}
  BY DEF SaveFails
<1>2. past'.strays = past.strays + 1 /\ save' = "idle"
  BY StraysGrow DEF SaveFails
<1>3. registered \in SUBSET Shortcut /\ T \in SUBSET Shortcut /\ T \subseteq registered \cup {k}
  BY <1>1 DEF TypeOK
<1>4. Cardinality(registered) <= past.strays /\ past.strays \in Nat
  BY DEF SaveFails, ShortcutInv, SaveCounted, TypeOK, Past
<1>5. Cardinality(T) <= past.strays + 1
  <2>1. Cardinality(registered) \in Nat /\ Cardinality(T) \in Nat
    BY <1>3, FewerStrays
  <2> HIDE DEF T
  <2>2. Cardinality(T) <= Cardinality(registered) + 1
    BY <1>3, OneMoreStray
  <2> QED
    BY <1>4, <2>1, <2>2
<1> QED
  BY <1>1, <1>2, <1>5 DEF ShortcutInv, ShortcutsAccountedFor, SaveCounted

LEMMA SaveSettingsCounts == ASSUME TypeOK, ShortcutInv, SaveSettings PROVE ShortcutInv'
<1>1. PICK k \in Shortcut, url \in Url \cup {None} :
        /\ file' = [url |-> url, hotkey |-> k]
        /\ IF RestartsFor(url) THEN StartsOver(file')
           ELSE /\ save' = "idle" /\ registered' = registered \cup {k}
                /\ Outdates(0, FALSE) /\ UNCHANGED up
  BY DEF SaveSettings
<1>2. file' \in Config /\ file'.hotkey = k
  BY <1>1 DEF Config
<1>3. CASE RestartsFor(url)
  BY <1>1, <1>2, <1>3, StartCounts DEF AnyFile
<1>4. CASE ~RestartsFor(url) /\ ~up
  BY <1>1, <1>4 DEF ShortcutInv
<1>5. CASE ~RestartsFor(url) /\ up
  <2>1. Wanted(file') = k
    BY <1>2, ReadOfConfig, DesktopAssumption DEF Wanted
  <2>2. past'.strays = past.strays /\ past.strays \in Nat
    <3>1. past.strays \in Nat
      BY DEF TypeOK, Past
    <3>2. past'.strays = past.strays + 0
      BY <1>1, <1>5, StraysGrow
    <3> QED
      BY <3>1, <3>2
  <2>3. registered' \ {k} \in SUBSET registered /\ registered \in SUBSET Shortcut
    BY <1>1, <1>5 DEF TypeOK
  <2>4. Cardinality(registered) <= past.strays
    BY <1>5 DEF SaveSettings, ShortcutInv, SaveCounted
  <2>5. Cardinality(registered' \ {k}) <= past'.strays
    BY <2>2, <2>3, <2>4, FewerStrays
  <2> QED
    BY <1>1, <1>5, <2>1, <2>5 DEF ShortcutInv, ShortcutsAccountedFor, SaveCounted
<1> QED
  BY <1>3, <1>4, <1>5

LEMMA StepKeepsShortcuts ==
    ASSUME TypeOK, ShortcutInv, [Next]_vars
    PROVE  ShortcutInv'
<1>1. CASE Start \/ Installed
  BY <1>1, StartCounts DEF Start, Installed, TypeOK, AnyFile
<1>2. CASE Quit
  BY <1>2 DEF Quit, ShortcutInv
<1>3. CASE SetServerUrl
  BY <1>3, FileWritten DEF SetServerUrl, Command
<1>4. CASE SaveWindowPosition
  BY <1>4, FileWritten DEF SaveWindowPosition, Command, system
<1>5. CASE SaveBegins \/ RollBack \/ SaveFails \/ SaveSettings
  BY <1>5, SaveBeginsCounts, RollBackCounts, SaveFailsCounts, SaveSettingsCounts
<1>6. CASE SaveRefused
  BY <1>6 DEF SaveRefused, ShortcutInv, ShortcutsAccountedFor, SaveCounted
<1>7. ASSUME UNCHANGED <<file, up, registered, save>>,
             past'.strays = past.strays, past'.refused = past.refused
      PROVE  ShortcutInv'
  BY <1>7 DEF ShortcutInv, ShortcutsAccountedFor, SaveCounted
<1>8. ASSUME InstallFails \/ \E c \in Check : OfferUpdate(c) PROVE ShortcutInv'
  <2>1. past'.strays = past.strays /\ past'.refused = past.refused
    BY <1>8 DEF InstallFails, OfferUpdate, TypeOK, Past
  <2> QED
    BY <1>7, <1>8, <2>1 DEF InstallFails, OfferUpdate, system
<1>9. CASE OtherProgram \/ RestartToUpdate \/ ToggleWindow \/ HideWindow \/ CopyAndPasteLink
  BY <1>7, <1>9 DEF OtherProgram, RestartToUpdate, ToggleWindow, HideWindow, CopyAndPasteLink, system
<1>10. ASSUME NEW c \in Check, CheckForUpdates(c) \/ NoUpdate(c) \/ StoreUpdate(c)
       PROVE  ShortcutInv'
  BY <1>7, <1>10 DEF CheckForUpdates, NoUpdate, StoreUpdate, system
<1>11. ASSUME NEW p \in Paste, HideToPaste(p) \/ PasteKeys(p)
       PROVE  ShortcutInv'
  BY <1>7, <1>11 DEF HideToPaste, PasteKeys, system
<1>12. CASE UNCHANGED vars
  BY <1>7, <1>12 DEF vars, system
<1> QED
  BY <1>1, <1>2, <1>3, <1>4, <1>5, <1>6, <1>8, <1>9, <1>10, <1>11, <1>12 DEF Next

\* Whatever other programs take and release between the calls of a save, every
\* shortcut in force that the settings do not name has one of the causes counted,
\* and a Picker that is not saving is without one only when the shortcut it asked
\* for last was refused, be it the old one on the way back.
THEOREM ShortcutsAreAccountedFor == Spec => []ShortcutsAccountedFor
<1>1. Init => ShortcutInv
  BY DEF Init, ShortcutInv
<1>2. TypeOK /\ ShortcutInv /\ [Next]_vars => ShortcutInv'
  BY StepKeepsShortcuts
<1>3. ShortcutInv => ShortcutsAccountedFor
  BY DEF ShortcutInv, ShortcutsAccountedFor
<1> QED
  BY <1>1, <1>2, <1>3, TypeCorrect, PTL DEF Spec

-----------------------------------------------------------------------------
(* The update on offer *)

\* Besides OfferIsBacked: so is a check about to offer what it found.
Backed == pending \/ installing > 0 \/ past.failed
OfferInv == OfferIsBacked /\ \A c \in Check : check[c] = "found" => Backed

LEMMA StepKeepsOffer ==
    ASSUME TypeOK, up => OfferInv, [Next]_vars
    PROVE  (up => OfferInv)'
<1> USE DEF OfferInv, OfferIsBacked, Backed
<1>1. CASE Start \/ Installed
  <2>1. StartsOver(file)
    BY <1>1 DEF Start, Installed
  <2> QED
    BY <2>1 DEF StartsOver
<1>2. CASE Quit
  BY <1>2 DEF Quit
<1>3. ASSUME UNCHANGED <<up, updates>>, past'.failed = past.failed, past'.unshown = past.unshown
      PROVE  (up => OfferInv)'
  BY <1>3 DEF updates
<1>4. CASE SetServerUrl \/ SaveWindowPosition \/ SaveBegins \/ RollBack \/ SaveFails
  <2>1. UNCHANGED <<up, updates>>
    BY <1>4 DEF SetServerUrl, SaveWindowPosition, SaveBegins, RollBack, SaveFails
  <2>2. past'.failed = past.failed /\ past'.unshown = past.unshown
    BY <1>4 DEF SetServerUrl, SaveWindowPosition, SaveBegins, RollBack, SaveFails, Outdates, TypeOK, Past
  <2> QED
    BY <1>3, <2>1, <2>2
<1>5. CASE SaveSettings
  <2>1. PICK k \in Shortcut, url \in Url \cup {None} :
          IF RestartsFor(url) THEN StartsOver(file') ELSE Outdates(0, FALSE) /\ UNCHANGED <<up, updates>>
    BY <1>5 DEF SaveSettings
  <2>2. CASE RestartsFor(url)
    BY <2>1, <2>2 DEF StartsOver
  <2>3. CASE ~RestartsFor(url)
    <3>1. past'.failed = past.failed /\ past'.unshown = past.unshown
      BY <2>1, <2>3, StraysGrow
    <3> QED
      BY <1>3, <2>1, <2>3, <3>1
  <2> QED
    BY <2>2, <2>3
<1>6. ASSUME NEW c \in Check, CheckForUpdates(c) \/ NoUpdate(c) \/ StoreUpdate(c) \/ OfferUpdate(c)
      PROVE  (up => OfferInv)'
  <2> check \in [Check -> {"idle", "asking", "found"}]
    BY DEF TypeOK
  <2>1. CASE CheckForUpdates(c)
    BY <2>1 DEF CheckForUpdates
  <2>2. CASE NoUpdate(c)
    BY <2>2 DEF NoUpdate
  <2>3. CASE StoreUpdate(c)
    BY <2>3 DEF StoreUpdate
  <2>4. CASE OfferUpdate(c)
    <3>1. past'.failed = past.failed /\ (past.unshown => past'.unshown)
      BY <2>4 DEF OfferUpdate, TypeOK, Past
    <3>2. menu' = "update" \/ (UNCHANGED menu /\ past'.unshown)
      BY <2>4 DEF OfferUpdate, TypeOK, Past
    <3> QED
      BY <2>4, <3>1, <3>2 DEF OfferUpdate
  <2> QED
    BY <1>6, <2>1, <2>2, <2>3, <2>4
<1>7. CASE RestartToUpdate
  BY <1>7 DEF RestartToUpdate, TypeOK
<1>8. CASE InstallFails
  BY <1>8 DEF InstallFails, TypeOK, Past
<1>9. CASE OtherProgram \/ SaveRefused \/ ToggleWindow \/ HideWindow \/ CopyAndPasteLink
  BY <1>3, <1>9 DEF OtherProgram, SaveRefused, ToggleWindow, HideWindow, CopyAndPasteLink
<1>10. ASSUME NEW p \in Paste, HideToPaste(p) \/ PasteKeys(p)
       PROVE  (up => OfferInv)'
  BY <1>3, <1>10 DEF HideToPaste, PasteKeys
<1>11. CASE UNCHANGED vars
  BY <1>3, <1>11 DEF vars
<1> QED
  BY <1>1, <1>2, <1>4, <1>5, <1>6, <1>7, <1>8, <1>9, <1>10, <1>11 DEF Next

\* However many checks find an update and offer it late, the menu offers to restart
\* only with an update waiting or being installed, or after an install failed.
THEOREM OffersAreBacked == Spec => []OfferIsBacked
<1>1. Init => (up => OfferInv)
  BY DEF Init
<1>2. TypeOK /\ (up => OfferInv) /\ [Next]_vars => (up => OfferInv)'
  BY StepKeepsOffer
<1>3. (up => OfferInv) => OfferIsBacked
  BY DEF OfferInv, OfferIsBacked
<1> QED
  BY <1>1, <1>2, <1>3, TypeCorrect, PTL DEF Spec

-----------------------------------------------------------------------------
(* Pasting *)

\* PasteHitsItsTarget, and what it says of the clipboard already while hiding.
OwnLink(p)  == clipboard # paste[p].link => "copied" \in paste[p].crossed
Hidden(p)   == shown => "shown" \in paste[p].crossed
PasteInv ==
    \A p \in Paste : /\ paste[p].pc # "idle" => OwnLink(p)
                     /\ paste[p].pc = "wait" => Hidden(p)

LEMMA StepKeepsPaste ==
    ASSUME TypeOK, PasteInv, [Next]_vars
    PROVE  PasteInv'
<1> USE DEF PasteInv, OwnLink, Hidden
<1>0. paste \in [Paste -> Pasting]
  BY DEF TypeOK
<1>1. ASSUME StartsOver(file') PROVE PasteInv'
  BY <1>1 DEF StartsOver, NoPaste
<1>2. CASE Start \/ Installed
  BY <1>1, <1>2 DEF Start, Installed
<1>3. CASE Quit
  BY <1>3 DEF Quit, NoPaste
<1>4. ASSUME UNCHANGED window PROVE PasteInv'
  BY <1>4 DEF window
<1>5. CASE SaveSettings
  BY <1>1, <1>4, <1>5 DEF SaveSettings
<1>6. CASE OtherProgram \/ SetServerUrl \/ SaveWindowPosition \/ SaveBegins \/ SaveRefused
             \/ RollBack \/ SaveFails \/ RestartToUpdate \/ InstallFails
  BY <1>4, <1>6 DEF OtherProgram, SetServerUrl, SaveWindowPosition, SaveBegins, SaveRefused,
                    RollBack, SaveFails, RestartToUpdate, InstallFails
<1>7. ASSUME NEW c \in Check, CheckForUpdates(c) \/ NoUpdate(c) \/ StoreUpdate(c) \/ OfferUpdate(c)
      PROVE  PasteInv'
  BY <1>4, <1>7 DEF CheckForUpdates, NoUpdate, StoreUpdate, OfferUpdate
<1>8. CASE ToggleWindow
  BY <1>0, <1>8 DEF ToggleWindow, CrossedBy, Pasting
<1>9. CASE HideWindow
  BY <1>9 DEF HideWindow
<1>10. CASE CopyAndPasteLink
  <2>1. PICK l \in Link :
          /\ clipboard' = l
          /\ \/ paste' = CrossedBy({"copied"}, paste)
             \/ \E p \in Paste :
                   /\ paste[p].pc = "idle"
                   /\ paste' = [CrossedBy({"copied"}, paste) EXCEPT
                                  ![p] = [pc |-> "hide", link |-> l, crossed |-> {}]]
    BY <1>10 DEF CopyAndPasteLink
  <2>2. UNCHANGED shown
    BY <1>10 DEF CopyAndPasteLink
  <2>3. CASE paste' = CrossedBy({"copied"}, paste)
    BY <1>0, <2>2, <2>3 DEF CrossedBy, Pasting
  <2>4. ASSUME NEW p \in Paste, paste[p].pc = "idle",
               paste' = [CrossedBy({"copied"}, paste) EXCEPT ![p] = [pc |-> "hide", link |-> l, crossed |-> {}]]
        PROVE  PasteInv'
    BY <1>0, <2>1, <2>2, <2>4 DEF CrossedBy, Pasting
  <2> QED
    BY <2>1, <2>3, <2>4
<1>11. ASSUME NEW p \in Paste, HideToPaste(p) PROVE PasteInv'
  BY <1>0, <1>11 DEF HideToPaste, Pasting
<1>12. ASSUME NEW p \in Paste, PasteKeys(p) PROVE PasteInv'
  BY <1>0, <1>12 DEF PasteKeys, NoPaste
<1>13. CASE UNCHANGED vars
  BY <1>4, <1>13 DEF vars
<1> QED
  BY <1>2, <1>3, <1>5, <1>6, <1>7, <1>8, <1>9, <1>10, <1>11, <1>12, <1>13 DEF Next

\* Any number of pastes in flight: each presses its keys on its own link with the
\* window hidden, unless a copy or a show came after it started.
THEOREM PastesHitTheirTarget == Spec => []PasteHitsItsTarget
<1>1. Init => PasteInv
  BY DEF Init, PasteInv, NoPaste
<1>2. TypeOK /\ PasteInv /\ [Next]_vars => PasteInv'
  BY StepKeepsPaste
<1>3. PasteInv => PasteHitsItsTarget
  BY DEF PasteInv, OwnLink, Hidden, PasteHitsItsTarget
<1> QED
  BY <1>1, <1>2, <1>3, TypeCorrect, PTL DEF Spec
=============================================================================
