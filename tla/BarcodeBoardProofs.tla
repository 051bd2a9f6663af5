-------------------------- MODULE BarcodeBoardProofs --------------------------
(***************************************************************************)
(* Proofs about BarcodeBoard.  The invariant has four parts, on the        *)
(* settings, the symbol, the presets and the display, and each lemma says  *)
(* what one building block of the handlers does to its part; the steps of  *)
(* Next are then put together from the lemmas.                             *)
(***************************************************************************)
EXTENDS BarcodeBoard, FiniteSetTheorems, WellFoundedInduction, TLAPS

SetupInv == config \in Settings /\ configFile \in Settings \cup {Unreadable} /\ SettingsOnFlash
SymbolInv == spec \in Specs /\ current \in Symbols \cup {NoSymbol}
PresetsInv == presets \in [Names -> Specs \cup {Missing, Unreadable}] /\ PresetLimit
DisplayInv ==
  /\ view \in Views /\ screen.of \in Views /\ screen.at \in Orientations /\ panel \in Orientations
  /\ page \in Nat /\ deleting \in BOOLEAN /\ unrendered \in BOOLEAN /\ behind \in BOOLEAN
  /\ TouchesMeetTheScreen /\ RowsAsShown
  /\ view = "Barcode" => current # NoSymbol

BoardInv == SetupInv /\ SymbolInv /\ PresetsInv /\ DisplayInv
-----------------------------------------------------------------------------
(* Settings.                                                               *)

LEMMA SaveConfigStep ==
  ASSUME SetupInv, NEW new \in Settings, NEW ok \in BOOLEAN, SaveConfig(new, ok)
  PROVE  SetupInv' /\ config' = (IF ok THEN new ELSE config)
BY DEF SetupInv, SettingsOnFlash, SaveConfig, setup

LEMMA SetupKept == ASSUME SetupInv, UNCHANGED setup PROVE SetupInv'
BY DEF SetupInv, SettingsOnFlash, setup

LEMMA SymbolKept == ASSUME SymbolInv, UNCHANGED symbol PROVE SymbolInv'
BY DEF SymbolInv, symbol
-----------------------------------------------------------------------------
(* Presets.                                                                *)

LEMMA StoredIsFinite ==
  ASSUME NEW p PROVE IsFiniteSet(Stored(p)) /\ Cardinality(Stored(p)) \in Nat
<1>1. IsFiniteSet(Names) BY BoardAssumption
<1>2. Stored(p) \subseteq Names BY DEF Stored
<1> QED BY <1>1, <1>2, FS_Subset, FS_CardinalityType

LEMMA PresetsKept == ASSUME PresetsInv, UNCHANGED presets PROVE PresetsInv'
BY DEF PresetsInv, PresetLimit, Stored

\* Whatever a write leaves under a name that could be saved, there are no more
\* presets than the limit.
LEMMA WriteKeepsLimit ==
  ASSUME PresetsInv, NEW n \in Names, CanSave(n),
         NEW v \in Specs \cup {Missing, Unreadable}, presets' = [presets EXCEPT ![n] = v]
  PROVE  PresetsInv'
<1> DEFINE S == Stored(presets)
<1>1. presets' \in [Names -> Specs \cup {Missing, Unreadable}]
  BY DEF PresetsInv
<1>2. Stored(presets') \subseteq S \cup {n}
  BY DEF PresetsInv, Stored
<1>3. /\ IsFiniteSet(S \cup {n})
      /\ Cardinality(S \cup {n}) = IF n \in S THEN Cardinality(S) ELSE Cardinality(S) + 1
  BY StoredIsFinite, FS_AddElement
<1>4. Cardinality(Stored(presets')) <= Cardinality(S \cup {n})
  BY <1>2, <1>3, FS_Subset
<1>5. /\ Cardinality(S) \in Nat /\ Cardinality(Stored(presets')) \in Nat
      /\ Cardinality(S) <= MaxPresets
  BY StoredIsFinite DEF PresetsInv, PresetLimit
<1>6. n \in S \/ Cardinality(S) < MaxPresets
  BY DEF CanSave
<1>7. MaxPresets \in Nat
  BY BoardAssumption
<1>8. Cardinality(Stored(presets')) <= MaxPresets
  <2> HIDE DEF S
  <2>1. Cardinality(S \cup {n}) <= MaxPresets
    BY <1>3, <1>5, <1>6, <1>7
  <2> QED BY <2>1, <1>3, <1>4, <1>5, <1>7
<1> QED BY <1>1, <1>8 DEF PresetsInv, PresetLimit

LEMMA SavePresetStep ==
  ASSUME PresetsInv, NEW n \in Names, NEW s \in Specs, SavePreset(n, s)
  PROVE  PresetsInv'
<1>1. CASE UNCHANGED presets BY <1>1, PresetsKept
<1>2. CASE CanSave(n) /\ presets' = [presets EXCEPT ![n] = Missing]
  BY <1>2, WriteKeepsLimit
<1>3. CASE CanSave(n) /\ presets' = [presets EXCEPT ![n] = Unreadable]
  BY <1>3, WriteKeepsLimit
<1>4. CASE CanSave(n) /\ presets' = [presets EXCEPT ![n] = s]
  BY <1>4, WriteKeepsLimit
<1> QED BY <1>1, <1>2, <1>3, <1>4 DEF SavePreset

LEMMA RemovePresetStep ==
  ASSUME PresetsInv, NEW n, RemovePreset(n) PROVE PresetsInv'
<1>1. CASE UNCHANGED presets BY <1>1, PresetsKept
<1>2. CASE n \in Stored(presets) /\ presets' = [presets EXCEPT ![n] = Missing]
  BY <1>2, WriteKeepsLimit DEF Stored, CanSave
<1> QED BY <1>1, <1>2 DEF RemovePreset

LEMMA NextSlotIsFree ==
  ASSUME FreeSlots # {} PROVE NextSlot \in Names /\ NextSlot \notin Stored(presets)
<1>1. FreeSlots \subseteq Nat
  BY BoardAssumption DEF FreeSlots, Slots
<1>2. \E n \in FreeSlots : \A k \in FreeSlots : n <= k
  <2>1. PICK n \in FreeSlots : \A k \in FreeSlots : ~(<<k, n>> \in OpToRel(<, Nat))
    BY <1>1, NatLessThanWellFounded, WFMin
  <2>2. \A k \in FreeSlots : ~(k < n)
    BY <1>1, <2>1 DEF OpToRel
  <2> QED BY <1>1, <2>2
<1>3. NextSlot \in FreeSlots
  BY <1>2 DEF NextSlot, Min
<1> QED BY <1>3 DEF FreeSlots, Slots
-----------------------------------------------------------------------------
(* Drawing.                                                                *)

LEMMA NotDrawnKeeps ==
  ASSUME DisplayInv, NotDrawn, config'.barcode = config.barcode \/ view # "Barcode",
         config'.editor = config.editor \/ view = "Barcode",
         view = "Barcode" => current' # NoSymbol
  PROVE  DisplayInv'
<1>1. /\ view' = view /\ screen' = screen /\ panel' = panel /\ page' = page
      /\ deleting' = deleting /\ unrendered' = unrendered
      /\ behind' = (behind \/ (view = "Presets" /\ presets' # presets))
  BY DEF NotDrawn
<1>2. behind' \in BOOLEAN /\ (~behind' => ~behind)
  BY <1>1 DEF DisplayInv
<1>3. TouchesMeetTheScreen'
  BY <1>1 DEF DisplayInv, TouchesMeetTheScreen
<1>4. RowsAsShown'
  <2> SUFFICES ASSUME view' = "Presets", ~behind'
               PROVE  screen'.shows = [names |-> Rows(presets', page'), deleting |-> deleting']
    BY DEF RowsAsShown
  <2>1. presets' = presets BY <1>1
  <2>2. screen.shows = [names |-> Rows(presets, page), deleting |-> deleting]
    BY <1>1, <1>2 DEF DisplayInv, RowsAsShown
  <2> QED BY <1>1, <2>1, <2>2
<1> QED BY <1>1, <1>2, <1>3, <1>4 DEF DisplayInv

LEMMA DrawGives ==
  ASSUME NEW v \in Views, NEW shows, Draw(v, shows), config' \in Settings,
         page' \in Nat, deleting' \in BOOLEAN, v = "Barcode" => current' # NoSymbol,
         v = "Presets" => shows = [names |-> Rows(presets', page'), deleting |-> deleting']
  PROVE  DisplayInv'
<1>1. OrientationFor(v) \in Orientations
  BY DEF OrientationFor, Settings
<1>2. /\ view' = v /\ screen' = [of |-> v, at |-> OrientationFor(v), shows |-> shows]
      /\ panel' = OrientationFor(v) /\ unrendered' = FALSE /\ behind' = FALSE
  BY DEF Draw
<1>3. screen'.of = v /\ screen'.at = OrientationFor(v) /\ screen'.shows = shows
  BY <1>2
<1>4. TouchesMeetTheScreen'
  BY <1>2, <1>3 DEF TouchesMeetTheScreen, OrientationFor
<1>5. RowsAsShown'
  BY <1>2, <1>3 DEF RowsAsShown
<1> QED BY <1>1, <1>2, <1>3, <1>4, <1>5 DEF DisplayInv

LEMMA ShowGives ==
  ASSUME DisplayInv, NEW v \in Views \ {"Barcode", "Presets"}, Show(v), config' \in Settings
  PROVE  DisplayInv'
BY DrawGives DEF Show, DisplayInv

LEMMA PagesType == ASSUME NEW p PROVE Pages(p) \in Nat \ {0}
<1> DEFINE n == Cardinality(Stored(p))
           k == (n + PageSize - 1) \div PageSize
<1>1. n \in Nat /\ PageSize \in Nat \ {0}
  BY StoredIsFinite, BoardAssumption
<1>2. k \in Nat
  <2> HIDE DEF n
  <2> QED BY <1>1
<1>3. Pages(p) = Max({1, k}) BY DEF Pages
<1> HIDE DEF k
<1>4. \E x \in {1, k} : \A y \in {1, k} : x >= y BY <1>2
<1>5. Max({1, k}) \in {1, k} /\ \A y \in {1, k} : Max({1, k}) >= y
  BY <1>4 DEF Max
<1> QED BY <1>2, <1>3, <1>5

LEMMA ShowPresetsGives ==
  ASSUME NEW k \in Nat, NEW d \in BOOLEAN, ShowPresets(k, d), config' \in Settings
  PROVE  DisplayInv'
<1> DEFINE m == Pages(presets') - 1
<1>1. m \in Nat BY PagesType
<1> HIDE DEF m
<1>2. \E x \in {k, m} : \A y \in {k, m} : x <= y BY <1>1
<1>3. Min({k, m}) \in {k, m} BY <1>2 DEF Min
<1>4. page' \in Nat BY <1>1, <1>3 DEF ShowPresets, m
<1> DEFINE drawn == [names |-> Rows(presets', page'), deleting |-> d]
<1>5. Draw("Presets", drawn) /\ deleting' = d BY DEF ShowPresets
<1>6. "Presets" \in Views /\ "Presets" # "Barcode" BY DEF Views, SubViews
<1>7. drawn = [names |-> Rows(presets', page'), deleting |-> deleting'] BY <1>5
<1> HIDE DEF drawn
<1> QED BY <1>4, <1>5, <1>6, <1>7, DrawGives

LEMMA RedrawGives ==
  ASSUME DisplayInv, view # "Barcode", Redraw(view), config' \in Settings
  PROVE  DisplayInv'
<1>1. view \in Views /\ page \in Nat /\ deleting \in BOOLEAN BY DEF DisplayInv
<1>2. CASE view = "Presets" BY <1>1, <1>2, ShowPresetsGives DEF Redraw
<1>3. CASE view # "Presets" BY <1>1, <1>3, ShowGives DEF Redraw
<1> QED BY <1>2, <1>3

LEMMA RenderGives ==
  ASSUME DisplayInv, Render, config' \in Settings, current' # NoSymbol,
         UNCHANGED presets \/ Fits(current', spec'.least)
  PROVE  DisplayInv'
<1>1. CASE Fits(current', spec'.least)
  <2>1. Draw("Barcode", current') /\ UNCHANGED <<page, deleting>>
    BY <1>1 DEF Render
  <2>2. "Barcode" \in Views BY DEF Views
  <2>3. page' \in Nat /\ deleting' \in BOOLEAN BY <2>1 DEF DisplayInv
  <2> QED BY <2>1, <2>2, <2>3, DrawGives
<1>2. CASE ~Fits(current', spec'.least)
  <2>1. /\ panel' = config'.barcode /\ unrendered' = TRUE
        /\ UNCHANGED <<view, screen, page, deleting, behind, presets>>
    BY <1>2 DEF Render
  <2>2. panel' \in Orientations BY <2>1 DEF Settings
  <2>3. TouchesMeetTheScreen' BY <2>1 DEF DisplayInv, TouchesMeetTheScreen
  <2>4. RowsAsShown' BY <2>1 DEF DisplayInv, RowsAsShown
  <2> QED BY <2>1, <2>2, <2>3, <2>4 DEF DisplayInv
<1> QED BY <1>1, <1>2
-----------------------------------------------------------------------------
(* Handlers that generate.                                                 *)

LEMMA EncodedType ==
  ASSUME NEW s \in Specs PROVE Encoded(s) \in Symbols /\ Encoded(s) # NoSymbol
<1>1. Encoded(s) \in Symbols BY DEF Encoded, Specs, Symbols
<1>2. NoSymbol \notin Symbols BY BoardAssumption
<1> QED BY <1>1, <1>2

LEMMA DisplayCurrentGives ==
  ASSUME DisplayInv, DisplayCurrent, config' \in Settings, UNCHANGED <<symbol, presets>>,
         view = "Barcode" \/ config' = config
  PROVE  DisplayInv'
<1>1. CASE current = NoSymbol
  <2>1. view # "Barcode" BY <1>1 DEF DisplayInv
  <2> QED BY <1>1, <2>1, NotDrawnKeeps DEF DisplayCurrent
<1>2. CASE current # NoSymbol
  BY <1>2, RenderGives DEF DisplayCurrent, symbol
<1> QED BY <1>1, <1>2

LEMMA GenerateGives ==
  ASSUME SetupInv, DisplayInv, SymbolInv, UNCHANGED setup, NEW s \in Specs, NEW shown \in BOOLEAN,
         Generate(s, shown), UNCHANGED presets \/ Succeeds(s, shown)
  PROVE  DisplayInv' /\ SymbolInv'
<1>1. config' = config /\ config' \in Settings BY DEF SetupInv, setup
<1>2. CASE s.content \notin Encodable
  <2>1. UNCHANGED symbol /\ NotDrawn BY <1>2 DEF Generate
  <2>2. view = "Barcode" => current' # NoSymbol BY <2>1 DEF DisplayInv, symbol
  <2> QED BY <1>1, <2>1, <2>2, NotDrawnKeeps, SymbolKept
<1>3. CASE s.content \in Encodable
  <2>1. /\ spec' = s /\ current' = Encoded(s)
        /\ IF shown THEN Render ELSE IF view = "Home" THEN Show("Home") ELSE NotDrawn
    BY <1>3 DEF Generate
  <2>2. SymbolInv' /\ current' # NoSymbol
    BY <2>1, EncodedType DEF SymbolInv
  <2>3. CASE shown
    <3>1. UNCHANGED presets \/ Fits(current', spec'.least) BY <2>1, <2>3 DEF Succeeds
    <3> QED BY <1>1, <2>1, <2>2, <2>3, <3>1, RenderGives
  <2>4. CASE ~shown /\ view = "Home"
    BY <1>1, <2>1, <2>2, <2>4, ShowGives DEF Views
  <2>5. CASE ~shown /\ view # "Home"
    BY <1>1, <2>1, <2>2, <2>5, NotDrawnKeeps
  <2> QED BY <2>2, <2>3, <2>4, <2>5
<1> QED BY <1>2, <1>3

LEMMA PresentGives ==
  ASSUME SetupInv, DisplayInv, SymbolInv, UNCHANGED <<setup, presets>>, NEW s \in Specs, Present(s)
  PROVE  DisplayInv' /\ SymbolInv'
<1>1. CASE view = "Options" /\ ~Succeeds(s, TRUE)
  <2>1. /\ Show("Home")
        /\ UNCHANGED symbol \/ (spec' = s /\ current' = Encoded(s))
    BY <1>1 DEF Present
  <2>2. SymbolInv' BY <2>1, SymbolKept, EncodedType DEF SymbolInv
  <2>3. config' \in Settings BY DEF SetupInv, setup
  <2> QED BY <2>1, <2>2, <2>3, ShowGives DEF Views
<1>2. CASE ~(view = "Options" /\ ~Succeeds(s, TRUE))
  BY <1>2, GenerateGives DEF Present
<1> QED BY <1>1, <1>2

LEMMA SetOrientationGives ==
  ASSUME BoardInv, NEW t \in {"barcode", "editor"}, NEW o \in Orientations, SetOrientation(t, o)
  PROVE  BoardInv'
<1>1. UNCHANGED <<symbol, presets>> BY DEF SetOrientation
<1>2. PICK ok \in BOOLEAN :
         /\ SaveConfig([config EXCEPT ![t] = o], ok)
         /\ IF ~ok THEN NotDrawn
            ELSE IF view # "Barcode" THEN Redraw(view)
            ELSE IF t = "barcode" THEN DisplayCurrent ELSE NotDrawn
  BY DEF SetOrientation
<1>3. [config EXCEPT ![t] = o] \in Settings BY DEF BoardInv, SetupInv, Settings
<1>4. SetupInv' /\ config' = (IF ok THEN [config EXCEPT ![t] = o] ELSE config)
  BY <1>2, <1>3, SaveConfigStep DEF BoardInv
<1>5. config' \in Settings BY <1>4 DEF SetupInv
<1>6. SymbolInv' /\ PresetsInv' BY <1>1, SymbolKept, PresetsKept DEF BoardInv
<1>7. view = "Barcode" => current' # NoSymbol BY <1>1 DEF BoardInv, DisplayInv, symbol
<1>8. DisplayInv'
  <2>1. CASE ~ok
    BY <1>2, <1>4, <1>7, <2>1, NotDrawnKeeps DEF BoardInv
  <2>2. CASE ok /\ view # "Barcode"
    BY <1>2, <1>5, <2>2, RedrawGives DEF BoardInv
  <2>3. CASE ok /\ view = "Barcode" /\ t = "barcode"
    BY <1>1, <1>2, <1>5, <2>3, DisplayCurrentGives DEF BoardInv
  <2>4. CASE ok /\ view = "Barcode" /\ t = "editor"
    <3>1. config'.barcode = config.barcode
      BY <1>4, <2>4 DEF BoardInv, SetupInv, Settings
    <3> QED BY <1>2, <1>7, <2>4, <3>1, NotDrawnKeeps DEF BoardInv
  <2> QED BY <2>1, <2>2, <2>3, <2>4
<1> QED BY <1>4, <1>6, <1>8 DEF BoardInv
-----------------------------------------------------------------------------
(* The steps.                                                              *)

LEMMA QuietStep ==
  ASSUME BoardInv, UNCHANGED setup
  PROVE  SetupInv' /\ config' = config /\ config' \in Settings
BY SetupKept DEF BoardInv, SetupInv, setup

\* A step that only draws.
LEMMA ShowStep ==
  ASSUME BoardInv, KeepAllButDisplay, NEW v \in Views \ {"Barcode", "Presets"}, Show(v)
  PROVE  BoardInv'
BY QuietStep, SymbolKept, PresetsKept, ShowGives DEF BoardInv, KeepAllButDisplay

LEMMA ShowPresetsStep ==
  ASSUME BoardInv, KeepAllButDisplay, NEW k \in Nat, NEW d \in BOOLEAN, ShowPresets(k, d)
  PROVE  BoardInv'
BY QuietStep, SymbolKept, PresetsKept, ShowPresetsGives DEF BoardInv, KeepAllButDisplay

LEMMA SwitchStep ==
  ASSUME BoardInv, NEW v \in Views \ {"Barcode", "Presets"}, Switch(v) PROVE BoardInv'
<1>1. PICK ok \in BOOLEAN : SaveConfig(config, ok) BY DEF Switch
<1>2. SetupInv' /\ config' \in Settings
  BY <1>1, SaveConfigStep DEF BoardInv, SetupInv
<1> QED BY <1>2, SymbolKept, PresetsKept, ShowGives DEF BoardInv, Switch

LEMMA InitHolds == Init => BoardInv
<1> SUFFICES ASSUME Init PROVE BoardInv OBVIOUS
<1>1. SetupInv
  BY BoardAssumption DEF Init, SetupInv, SettingsOnFlash, DefaultConfig, Settings
<1>2. SymbolInv
  BY BoardAssumption DEF Init, SymbolInv, Specs
<1>3. PresetsInv
  <2>1. Stored(presets) = {} BY DEF Init, Stored
  <2>2. Cardinality(Stored(presets)) = 0 BY <2>1, FS_EmptySet
  <2> QED BY <2>2, BoardAssumption DEF Init, PresetsInv, PresetLimit
<1>4. DisplayInv
  BY BoardAssumption
     DEF Init, DisplayInv, Views, TouchesMeetTheScreen, RowsAsShown, DefaultConfig
<1> QED BY <1>1, <1>2, <1>3, <1>4 DEF BoardInv

LEMMA BootStep ==
  ASSUME BoardInv, Boot, configFile' \in Settings \cup {Unreadable}
  PROVE  SetupInv' /\ SymbolInv' /\ DisplayInv'
<1>1. DefaultConfig \in Settings BY BoardAssumption DEF DefaultConfig, Settings
<1>2. config' \in Settings /\ configFile' \in {config', Unreadable} BY <1>1 DEF Boot
<1>3. SetupInv' BY <1>2 DEF SetupInv, SettingsOnFlash
<1>4. SymbolInv' BY BoardAssumption DEF Boot, SymbolInv, Specs
<1>5. /\ Draw("Home", <<>>) /\ page' \in Nat /\ deleting' \in BOOLEAN
      /\ "Home" \in Views
  BY DEF Boot, Views
<1>6. DisplayInv' BY <1>2, <1>5, DrawGives
<1> QED BY <1>3, <1>4, <1>6

LEMMA TouchSaveStep == ASSUME BoardInv, TouchSave PROVE BoardInv'
<1>1. UNCHANGED <<symbol, setup>> BY DEF TouchSave, KeepSetup
<1>2. SetupInv' /\ config' = config /\ config' \in Settings BY <1>1, QuietStep
<1>3. SymbolInv' BY <1>1, SymbolKept DEF BoardInv
<1>4. PresetsInv'
  <2>1. CASE FreeSlots = {} BY <2>1, PresetsKept DEF TouchSave, BoardInv
  <2>2. CASE FreeSlots # {}
    BY <2>2, NextSlotIsFree, SavePresetStep DEF TouchSave, BoardInv, SymbolInv
  <2> QED BY <2>1, <2>2
<1>5. DisplayInv'
  <2>1. CASE view = "Presets"
    BY <1>2, <2>1, ShowPresetsGives DEF TouchSave, BoardInv, DisplayInv
  <2>2. CASE view # "Presets"
    BY <1>1, <1>2, <2>2, NotDrawnKeeps DEF TouchSave, BoardInv, DisplayInv
  <2> QED BY <2>1, <2>2
<1> QED BY <1>2, <1>3, <1>4, <1>5 DEF BoardInv

LEMMA TouchRowStep == ASSUME BoardInv, NEW r, TouchRow(r) PROVE BoardInv'
<1>1. PICK n \in Stored(presets) :
        IF deleting
        THEN RemovePreset(n) /\ UNCHANGED symbol /\ KeepSetup /\ ShowPresets(page, FALSE)
        ELSE KeepFiles /\ LoadRow(n)
  BY DEF TouchRow
<1>2. UNCHANGED setup BY <1>1 DEF KeepFiles, KeepSetup
<1>3. SetupInv' /\ config' \in Settings BY <1>2, QuietStep
<1>4. page \in Nat /\ deleting \in BOOLEAN BY DEF BoardInv, DisplayInv
<1>5. CASE deleting
  <2>1. SymbolInv' /\ PresetsInv'
    BY <1>1, <1>5, SymbolKept, RemovePresetStep DEF BoardInv
  <2>2. DisplayInv' BY <1>1, <1>3, <1>4, <1>5, ShowPresetsGives
  <2> QED BY <1>3, <2>1, <2>2 DEF BoardInv
<1>6. CASE ~deleting
  <2>1. UNCHANGED presets /\ LoadRow(n) BY <1>1, <1>6 DEF KeepFiles
  <2>2. PresetsInv' BY <2>1, PresetsKept DEF BoardInv
  <2>3. CASE presets[n] = Unreadable
    <3>1. UNCHANGED symbol /\ ShowPresets(page, deleting) BY <2>1, <2>3 DEF LoadRow
    <3> QED BY <1>3, <1>4, <2>2, <3>1, SymbolKept, ShowPresetsGives DEF BoardInv
  <2>4. CASE presets[n] # Unreadable
    <3>1. spec' = presets[n] /\ UNCHANGED current /\ Show("Home") BY <2>1, <2>4 DEF LoadRow
    <3>2. presets[n] \in Specs BY <2>4 DEF BoardInv, PresetsInv, Stored
    <3>3. SymbolInv' BY <3>1, <3>2 DEF BoardInv, SymbolInv
    <3>4. DisplayInv' BY <1>3, <3>1, ShowGives DEF BoardInv, Views
    <3> QED BY <1>3, <2>2, <3>3, <3>4 DEF BoardInv
  <2> QED BY <2>3, <2>4
<1> QED BY <1>4, <1>5, <1>6

LEMMA TouchStep == ASSUME BoardInv, Touch PROVE BoardInv'
<1>1. CASE TouchNavigate
  <2>1. PICK v \in Leads[view] : KeepAllButDisplay /\ Show(v) BY <1>1 DEF TouchNavigate
  <2>2. v \in Views \ {"Barcode", "Presets"}
    BY <2>1 DEF Leads, BoardInv, DisplayInv, Views, SubViews
  <2> QED BY <2>1, <2>2, ShowStep
<1>2. CASE TouchPresets BY <1>2, ShowPresetsStep DEF TouchPresets
<1>3. CASE ToggleTheme
  <2>1. /\ view # "Barcode" /\ UNCHANGED <<symbol, presets>>
        /\ \E ok \in BOOLEAN : SaveConfig(config, ok) /\ IF ok THEN Redraw(view) ELSE NotDrawn
    BY <1>3 DEF ToggleTheme
  <2>2. PICK ok \in BOOLEAN : SaveConfig(config, ok) /\ IF ok THEN Redraw(view) ELSE NotDrawn
    BY <2>1
  <2>3. SetupInv' /\ config' = config /\ config' \in Settings
    BY <2>2, SaveConfigStep DEF BoardInv, SetupInv
  <2>4. DisplayInv'
    BY <2>1, <2>2, <2>3, RedrawGives, NotDrawnKeeps DEF BoardInv
  <2> QED BY <2>1, <2>3, <2>4, SymbolKept, PresetsKept DEF BoardInv
<1>4. CASE TouchKeyboard
  <2>1. /\ view = "Home" /\ (\E c \in Contents : spec' = [spec EXCEPT !.content = c])
        /\ UNCHANGED <<setup, presets, current>> /\ NotDrawn
    BY <1>4 DEF TouchKeyboard, KeepFiles
  <2>2. SymbolInv' BY <2>1 DEF BoardInv, SymbolInv, Specs
  <2>3. DisplayInv' BY <2>1, QuietStep, NotDrawnKeeps DEF BoardInv
  <2> QED BY <2>1, <2>2, <2>3, QuietStep, PresetsKept DEF BoardInv
<1>5. CASE SelectType \/ CycleOption
  <2>1. PICK v \in {"Home", "Options"} :
          /\ spec' \in Specs /\ UNCHANGED <<setup, presets, current>> /\ Show(v)
    BY <1>5 DEF SelectType, CycleOption, KeepFiles, BoardInv, SymbolInv, Specs
  <2>2. SymbolInv' BY <2>1 DEF BoardInv, SymbolInv
  <2>3. v \in Views \ {"Barcode", "Presets"} BY DEF Views, SubViews
  <2>4. DisplayInv' BY <2>1, <2>3, QuietStep, ShowGives DEF BoardInv
  <2> QED BY <2>1, <2>2, <2>4, QuietStep, PresetsKept DEF BoardInv
<1>6. CASE TouchDisplay \/ TouchRandom
  <2>1. PICK s \in Specs : KeepFiles /\ Present(s)
    BY <1>6, BoardAssumption DEF TouchDisplay, TouchRandom, BoardInv, SymbolInv, Specs
  <2>2. UNCHANGED <<setup, presets>> BY <2>1 DEF KeepFiles
  <2> QED BY <2>1, <2>2, QuietStep, PresetsKept, PresentGives DEF BoardInv
<1>7. CASE TouchSave BY <1>7, TouchSaveStep
<1>8. CASE TouchDeleteMode
  BY <1>8, ShowPresetsStep DEF TouchDeleteMode, BoardInv, DisplayInv
<1>9. CASE TurnPage
  <2>1. KeepAllButDisplay /\ page \in Nat /\ deleting \in BOOLEAN
    BY <1>9 DEF TurnPage, BoardInv, DisplayInv
  <2>2. PICK k \in {IF page = 0 THEN Pages(presets) - 1 ELSE page - 1, (page + 1) % Pages(presets)} :
           ShowPresets(k, deleting)
    BY <1>9 DEF TurnPage
  <2>3. k \in Nat BY <2>1, PagesType
  <2> QED BY <2>1, <2>2, <2>3, ShowPresetsStep
<1>10. CASE \E r \in 1..PageSize : TouchRow(r) BY <1>10, TouchRowStep
<1>11. CASE TouchSettings \/ TouchStorage \/ TouchPower
  BY <1>11, SwitchStep DEF TouchSettings, TouchStorage, TouchPower, Views, SubViews
<1>12. CASE TouchOrientation BY <1>12, SetOrientationGives DEF TouchOrientation
<1> QED BY <1>1, <1>2, <1>3, <1>4, <1>5, <1>6, <1>7, <1>8, <1>9, <1>10, <1>11, <1>12 DEF Touch

LEMMA CommandGenerateStep ==
  ASSUME BoardInv, NEW s \in Specs, NEW shown \in BOOLEAN, NEW name \in Names \cup {NoName},
         CommandGenerate(s, shown, name)
  PROVE  BoardInv'
<1>1. UNCHANGED setup /\ Generate(s, shown) BY DEF CommandGenerate, KeepSetup
<1>2. PresetsInv' /\ (UNCHANGED presets \/ Succeeds(s, shown))
  <2>1. CASE name # NoName /\ Succeeds(s, shown)
    BY <2>1, SavePresetStep DEF CommandGenerate, BoardInv
  <2>2. CASE ~(name # NoName /\ Succeeds(s, shown))
    BY <2>2, PresetsKept DEF CommandGenerate, BoardInv
  <2> QED BY <2>1, <2>2
<1>3. DisplayInv' /\ SymbolInv' BY <1>1, <1>2, GenerateGives DEF BoardInv
<1> QED BY <1>1, <1>2, <1>3, QuietStep DEF BoardInv

\* display NAME and load NAME.
LEMMA RecallStep ==
  ASSUME BoardInv, NEW name \in Names, NEW shown \in BOOLEAN, KeepFiles,
         IF presets[name] \in {Missing, Unreadable} THEN UNCHANGED symbol /\ NotDrawn
         ELSE Generate(presets[name], shown)
  PROVE  BoardInv'
<1>1. UNCHANGED <<setup, presets>> BY DEF KeepFiles
<1>2. SetupInv' /\ PresetsInv' /\ config' = config
  BY <1>1, QuietStep, PresetsKept DEF BoardInv
<1>3. CASE presets[name] \in {Missing, Unreadable}
  <2>1. view = "Barcode" => current' # NoSymbol BY <1>3 DEF BoardInv, DisplayInv, symbol
  <2> QED BY <1>2, <1>3, <2>1, SymbolKept, NotDrawnKeeps DEF BoardInv
<1>4. CASE presets[name] \notin {Missing, Unreadable}
  <2>1. presets[name] \in Specs BY <1>4 DEF BoardInv, PresetsInv
  <2>2. DisplayInv' /\ SymbolInv' BY <1>1, <1>4, <2>1, GenerateGives DEF BoardInv
  <2> QED BY <1>2, <2>2 DEF BoardInv
<1> QED BY <1>3, <1>4

LEMMA CommandUploadStep ==
  ASSUME BoardInv, NEW c \in Contents, NEW shown \in BOOLEAN, CommandUpload(c, shown)
  PROVE  BoardInv'
<1>1. /\ UNCHANGED <<setup, presets>> /\ spec' = spec
      /\ current' = [raw |-> TRUE, content |-> c]
      /\ IF shown THEN Render ELSE NotDrawn
  BY DEF CommandUpload, KeepFiles
<1>2. current' \in Symbols BY <1>1 DEF Symbols
<1>3. SymbolInv' /\ current' # NoSymbol
  <2>1. NoSymbol \notin Symbols BY BoardAssumption
  <2> QED BY <1>1, <1>2, <2>1 DEF BoardInv, SymbolInv
<1>4. SetupInv' /\ PresetsInv' /\ config' = config /\ config' \in Settings
  BY <1>1, QuietStep, PresetsKept DEF BoardInv
<1>5. DisplayInv'
  BY <1>1, <1>3, <1>4, RenderGives, NotDrawnKeeps DEF BoardInv
<1> QED BY <1>3, <1>4, <1>5 DEF BoardInv

\* save and delete leave the screen as it is.
LEMMA FileCommandStep ==
  ASSUME BoardInv, NEW name \in Names, CommandSave(name) \/ CommandDelete(name)
  PROVE  BoardInv'
<1>1. UNCHANGED <<symbol, setup>> /\ NotDrawn
  BY DEF CommandSave, CommandDelete, KeepSetup
<1>2. PresetsInv'
  <2>1. CASE UNCHANGED presets \/ SavePreset(name, spec)
    BY <2>1, PresetsKept, SavePresetStep DEF BoardInv, SymbolInv
  <2>2. CASE RemovePreset(name)
    BY <2>2, RemovePresetStep DEF BoardInv
  <2> QED BY <2>1, <2>2 DEF CommandSave, CommandDelete
<1>3. view = "Barcode" => current' # NoSymbol BY <1>1 DEF BoardInv, DisplayInv, symbol
<1>4. DisplayInv' BY <1>1, <1>3, QuietStep, NotDrawnKeeps DEF BoardInv
<1> QED BY <1>1, <1>2, <1>4, QuietStep, SymbolKept DEF BoardInv

LEMMA CommandStep == ASSUME BoardInv, Command PROVE BoardInv'
<1>1. CASE \E s \in Specs, shown \in BOOLEAN, n \in Names \cup {NoName} : CommandGenerate(s, shown, n)
  BY <1>1, CommandGenerateStep
<1>2. CASE \E n \in Names \cup {NoName} : CommandDisplay(n)
  <2>1. PICK n \in Names \cup {NoName} : CommandDisplay(n) BY <1>2
  <2>2. CASE n = NoName
    <3>1. UNCHANGED <<symbol, setup, presets>> /\ DisplayCurrent
      BY <2>1, <2>2 DEF CommandDisplay, KeepFiles
    <3>2. config' = config /\ config' \in Settings /\ SetupInv' BY <3>1, QuietStep
    <3>3. DisplayInv' BY <3>1, <3>2, DisplayCurrentGives DEF BoardInv
    <3> QED BY <3>1, <3>2, <3>3, SymbolKept, PresetsKept DEF BoardInv
  <2>3. CASE n # NoName
    <3>1. /\ n \in Names /\ KeepFiles
          /\ IF presets[n] \in {Missing, Unreadable} THEN UNCHANGED symbol /\ NotDrawn
             ELSE Generate(presets[n], TRUE)
      BY <2>1, <2>3 DEF CommandDisplay
    <3> QED BY <3>1, RecallStep
  <2> QED BY <2>2, <2>3
<1>3. CASE \E n \in Names, shown \in BOOLEAN : CommandLoad(n, shown)
  BY <1>3, RecallStep DEF CommandLoad
<1>4. CASE CommandClose \/ CommandHome
  BY <1>4, ShowStep DEF CommandClose, CommandHome, Views
<1>5. CASE \E n \in Names : CommandSave(n) \/ CommandDelete(n) BY <1>5, FileCommandStep
<1>6. CASE \E c \in Contents, shown \in BOOLEAN : CommandUpload(c, shown) BY <1>6, CommandUploadStep
<1>7. CASE CommandOrientation BY <1>7, SetOrientationGives DEF CommandOrientation
<1> QED BY <1>1, <1>2, <1>3, <1>4, <1>5, <1>6, <1>7 DEF Command

LEMMA RestartStep == ASSUME BoardInv, Restart \/ PowerLoss PROVE BoardInv'
<1>1. Boot BY DEF Restart, PowerLoss
<1>2. configFile' \in Settings \cup {Unreadable}
  BY DEF Restart, PowerLoss, BoardInv, SetupInv
<1>3. PresetsInv'
  <2>1. CASE UNCHANGED presets BY <2>1, PresetsKept DEF BoardInv
  <2>2. CASE ~UNCHANGED presets
    <3>1. PICK n \in Names : CanSave(n) /\ presets' = [presets EXCEPT ![n] = Unreadable]
      BY <2>2 DEF Restart, PowerLoss
    <3> QED BY <3>1, WriteKeepsLimit DEF BoardInv
  <2> QED BY <2>1, <2>2
<1> QED BY <1>1, <1>2, <1>3, BootStep DEF BoardInv

LEMMA StutterStep == ASSUME BoardInv, UNCHANGED vars PROVE BoardInv'
<1>1. UNCHANGED <<symbol, setup, presets>> /\ UNCHANGED display BY DEF vars
<1>2. DisplayInv'
  BY <1>1 DEF display, symbol, setup, BoardInv, DisplayInv, TouchesMeetTheScreen, RowsAsShown
<1> QED BY <1>1, <1>2, SetupKept, SymbolKept, PresetsKept DEF BoardInv

LEMMA NextKeepsBoardInv == BoardInv /\ [Next]_vars => BoardInv'
<1> SUFFICES ASSUME BoardInv, [Next]_vars PROVE BoardInv' OBVIOUS
<1>1. CASE ShowApproval BY <1>1, ShowStep DEF ShowApproval, Views, SubViews
<1> QED BY <1>1, TouchStep, CommandStep, RestartStep, StutterStep DEF Next

LEMMA BoardInvHolds == Spec => []BoardInv
BY InitHolds, NextKeepsBoardInv, PTL DEF Spec
-----------------------------------------------------------------------------
(* The properties.                                                         *)

\* Type correctness: a preset that cannot be read is never taken for a spec.
THEOREM BoardTypes == Spec => []TypeOK
<1>1. BoardInv => TypeOK
  BY DEF BoardInv, SetupInv, SymbolInv, PresetsInv, DisplayInv, TypeOK
<1> QED BY <1>1, BoardInvHolds, PTL

\* The handler a touch reaches is that of the screen that is drawn, and unless
\* a symbol did not fit since, touches are mapped by the orientation in which
\* the screen was drawn.
THEOREM TouchesAreMapped == Spec => []TouchesMeetTheScreen
<1>1. BoardInv => TouchesMeetTheScreen BY DEF BoardInv, DisplayInv
<1> QED BY <1>1, BoardInvHolds, PTL

\* The rows of the Presets screen are the presets there are, unless a host
\* changed them while it was shown.
THEOREM RowsAreShown == Spec => []RowsAsShown
<1>1. BoardInv => RowsAsShown BY DEF BoardInv, DisplayInv
<1> QED BY <1>1, BoardInvHolds, PTL

\* device.json holds the settings in memory or cannot be read, whichever
\* writes failed and wherever the power went.
THEOREM SettingsKept == Spec => []SettingsOnFlash
<1>1. BoardInv => SettingsOnFlash BY DEF BoardInv, SetupInv
<1> QED BY <1>1, BoardInvHolds, PTL

\* There are never more presets than the limit.
THEOREM PresetsLimited == Spec => []PresetLimit
<1>1. BoardInv => PresetLimit BY DEF BoardInv, PresetsInv
<1> QED BY <1>1, BoardInvHolds, PTL

\* SAVE on the screen changes no preset that is there.
THEOREM SaveIsAdding == Spec => TouchSaveKeepsOthers
<1>1. BoardInv /\ [Next]_vars
        => [TouchSave => \A n \in Stored(presets) : presets'[n] = presets[n]]_vars
  <2> SUFFICES ASSUME BoardInv, TouchSave, NEW n \in Stored(presets)
               PROVE  presets'[n] = presets[n]
    OBVIOUS
  <2>1. CASE UNCHANGED presets BY <2>1
  <2>2. CASE FreeSlots # {} /\ ~UNCHANGED presets
    <3>1. NextSlot \in Names /\ NextSlot # n BY <2>2, NextSlotIsFree
    <3>2. PICK v : presets' = [presets EXCEPT ![NextSlot] = v]
      BY <2>2 DEF TouchSave, SavePreset
    <3> QED BY <3>1, <3>2 DEF BoardInv, PresetsInv, Stored
  <2> QED BY <2>1, <2>2 DEF TouchSave
<1> QED BY <1>1, BoardInvHolds, PTL DEF Spec, TouchSaveKeepsOthers
=============================================================================
