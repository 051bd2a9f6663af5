---------------------------- MODULE BarcodeBoard ----------------------------
(***************************************************************************)
(* The board as its user and its hosts see it: BarcodeApplication, the     *)
(* commands of ControlProtocolEngine that reach it, PresetStore and        *)
(* DeviceConfigStore.  A touch and a command each run to their end in the  *)
(* main loop.  Names are ordered, and the first MaxPresets of them are the *)
(* slots SLOT01, SLOT02, ...; a content stands for all of a spec but its   *)
(* smallest module, and for the matrix made of it.                         *)
(***************************************************************************)
EXTENDS Naturals, Sequences, FiniteSets, FiniteSetsExt, SequencesExt

CONSTANTS
  Contents,       \* payloads with their type and options
  Encodable,      \* those that encode() accepts
  FirstContent,   \* on the screen after a restart
  Minima,         \* values of minModulePixels
  Orientations,
  DefaultOrientation,
  Scale,          \* Scale[o][c]: pixels a module of c can have at orientation o
  Names,          \* of presets
  MaxPresets,     \* kMaxPresets
  PageSize,       \* rows of the Presets screen
  WriteResults,   \* how a write can end, of "refused", "empty", "cut", "whole"
  NoSymbol, Missing, Unreadable, NoName

Specs    == [content : Contents, least : Minima]
Symbols  == [raw : BOOLEAN, content : Contents]
Settings == [barcode : Orientations, editor : Orientations]
Slots    == {n \in Names : n <= MaxPresets}
SubViews == {"TypePicker", "Options", "Presets", "Settings", "Trust", "Storage", "Power"}
Views    == SubViews \cup {"Home", "Barcode"}

ASSUME BoardAssumption ==
  /\ Encodable \subseteq Contents /\ FirstContent \in Encodable
  /\ Minima \subseteq Nat \ {0} /\ 2 \in Minima
  /\ DefaultOrientation \in Orientations
  /\ Scale \in [Orientations -> [Contents -> Nat]]
  /\ Names \subseteq Nat \ {0} /\ IsFiniteSet(Names)
  /\ MaxPresets \in Nat /\ 1..MaxPresets \subseteq Names
  /\ PageSize \in Nat \ {0}
  /\ WriteResults \subseteq {"refused", "empty", "cut", "whole"}
  /\ NoSymbol \notin Symbols /\ NoName \notin Names
  /\ {Missing, Unreadable} \cap Specs = {} /\ Missing # Unreadable
  /\ Unreadable \notin Settings

VARIABLES
  spec,         \* spec_, which touches edit
  current,      \* current_ and currentIsRaw_
  view,         \* view_
  screen,       \* what was last drawn: the view, its orientation, rows or symbol
  panel,        \* appliedOrientation_, by which touches are mapped
  config,       \* DeviceConfigStore in memory
  configFile,   \* device.json
  presets,      \* the files under /presets
  page,         \* presetPage_
  deleting,     \* presetDeleteMode_
  unrendered,   \* auxiliary: the last rendering failed, nothing was drawn since
  behind        \* auxiliary: the presets changed while the Presets screen was shown

symbol  == <<spec, current>>
setup   == <<config, configFile>>
display == <<view, screen, panel, page, deleting, unrendered, behind>>
vars    == <<symbol, setup, presets, display>>
-----------------------------------------------------------------------------
(* PresetStore.                                                            *)

Stored(p) == {n \in Names : p[n] # Missing}
NamesOf(p) == SetToSortSeq(Stored(p), <)
\* In the mutant the last place is not counted.
CanSaveOneMore(n) == n \in Stored(presets) \/ Cardinality(Stored(presets)) <= MaxPresets
CanSave(n) == n \in Stored(presets) \/ Cardinality(Stored(presets)) < MaxPresets
FreeSlots == Slots \ Stored(presets)
\* In the mutant the slot after as many as are taken.
NextSlotByCount == Cardinality(Stored(presets)) + 1
NextSlot == Min(FreeSlots)

\* A file opened for writing is empty until it is written; one that took no
\* byte is removed, and one that took some counts as saved.
SavePreset(n, s) ==
  \/ /\ CanSave(n) => "refused" \in WriteResults
     /\ UNCHANGED presets
  \/ /\ CanSave(n)
     /\ \/ "empty" \in WriteResults /\ presets' = [presets EXCEPT ![n] = Missing]
        \/ "cut" \in WriteResults /\ presets' = [presets EXCEPT ![n] = Unreadable]
        \/ "whole" \in WriteResults /\ presets' = [presets EXCEPT ![n] = s]

RemovePreset(n) ==
  \/ n \in Stored(presets) /\ presets' = [presets EXCEPT ![n] = Missing]
  \/ /\ n \in Stored(presets) => "refused" \in WriteResults
     /\ UNCHANGED presets

(* DeviceConfigStore: memory goes back to what it was when the write fails. *)

\* In the mutant memory keeps what could not be written.
SaveConfigNoRollback(new, ok) ==
  \/ "refused" \in WriteResults /\ ok = FALSE /\ config' = new /\ configFile' = configFile
  \/ "whole" \in WriteResults /\ ok = TRUE /\ config' = new /\ configFile' = new

SaveConfig(new, ok) ==
  \/ "refused" \in WriteResults /\ ok = FALSE /\ UNCHANGED setup
  \/ "empty" \in WriteResults /\ ok = FALSE /\ config' = config /\ configFile' = Unreadable
  \/ "cut" \in WriteResults /\ ok = TRUE /\ config' = new /\ configFile' = Unreadable
  \/ "whole" \in WriteResults /\ ok = TRUE /\ config' = new /\ configFile' = new

DefaultConfig == [barcode |-> DefaultOrientation, editor |-> DefaultOrientation]
-----------------------------------------------------------------------------
(* Drawing.  These come last in a handler and read what it has set before. *)

NotDrawn ==
  /\ UNCHANGED <<view, screen, panel, page, deleting, unrendered>>
  /\ behind' = (behind \/ (view = "Presets" /\ presets' # presets))

\* applyOrientationForView.
OrientationFor(v) == IF v = "Barcode" THEN config'.barcode ELSE config'.editor

Draw(v, shows) ==
  /\ view' = v
  /\ screen' = [of |-> v, at |-> OrientationFor(v), shows |-> shows]
  /\ panel' = OrientationFor(v)
  /\ unrendered' = FALSE
  /\ behind' = FALSE

Show(v) == Draw(v, <<>>) /\ UNCHANGED <<page, deleting>>

\* drawPresets on page k: a page past the end becomes the last one.
Pages(p) == Max({1, (Cardinality(Stored(p)) + PageSize - 1) \div PageSize})
Rows(p, k) ==
  SubSeq(NamesOf(p), k * PageSize + 1, Min({(k + 1) * PageSize, Cardinality(Stored(p))}))
ShowPresets(k, d) ==
  /\ page' = Min({k, Pages(presets') - 1})
  /\ deleting' = d
  /\ Draw("Presets", [names |-> Rows(presets', page'), deleting |-> d])

Redraw(v) == IF v = "Presets" THEN ShowPresets(page, deleting) ELSE Show(v)

\* The smallest module is that of the spec as it is now, not the symbol's.
Fits(sym, least) ==
  Scale[config'.barcode][sym.content] >= (IF sym.raw THEN 1 ELSE least)

\* In the mutant the screen counts as the barcode's whether or not it is drawn.
RenderSetsView ==
  IF Fits(current', spec'.least) THEN Draw("Barcode", current') /\ UNCHANGED <<page, deleting>>
  ELSE /\ panel' = config'.barcode /\ view' = "Barcode"
       /\ unrendered' = TRUE
       /\ UNCHANGED <<screen, page, deleting, behind>>

\* renderCurrent turns the panel before it tries the layout.
Render ==
  IF Fits(current', spec'.least) THEN Draw("Barcode", current') /\ UNCHANGED <<page, deleting>>
  ELSE /\ panel' = config'.barcode
       /\ unrendered' = TRUE
       /\ UNCHANGED <<view, screen, page, deleting, behind>>

\* displayCurrent.
DisplayCurrent == IF current = NoSymbol THEN NotDrawn ELSE Render

\* generate: a spec that cannot be encoded changes nothing.
Encoded(s) == [raw |-> FALSE, content |-> s.content]
Succeeds(s, shown) == s.content \in Encodable /\ (shown => Fits(Encoded(s), s.least))
Generate(s, shown) ==
  IF s.content \notin Encodable THEN UNCHANGED symbol /\ NotDrawn
  ELSE /\ spec' = s /\ current' = Encoded(s)
       /\ IF shown THEN Render
          ELSE IF view = "Home" THEN Show("Home") ELSE NotDrawn
-----------------------------------------------------------------------------
(* Touches.                                                                *)

KeepSetup == UNCHANGED setup
KeepFiles == UNCHANGED <<setup, presets>>
KeepAllButDisplay == UNCHANGED <<symbol, setup, presets>>

\* The buttons that lead to another screen; a touch on the barcode closes it
\* once kTouchCloseGuardMs have passed.
Leads == [Home       |-> {"TypePicker", "Options", "Settings"},
          TypePicker |-> {"Home"}, Options |-> {"Home"}, Presets |-> {"Home"},
          Settings   |-> {"Home", "Trust", "Storage", "Power"},
          Trust      |-> {"Home"}, Storage |-> {"Settings"}, Power |-> {"Settings"},
          Barcode    |-> {"Home"}]
TouchNavigate == \E v \in Leads[view] : KeepAllButDisplay /\ Show(v)
TouchPresets == view = "Home" /\ KeepAllButDisplay /\ ShowPresets(0, FALSE)

\* setDarkTheme, with which every screen but the barcode is drawn again.
ToggleTheme ==
  /\ view # "Barcode"
  /\ UNCHANGED <<symbol, presets>>
  /\ \E ok \in BOOLEAN : SaveConfig(config, ok) /\ IF ok THEN Redraw(view) ELSE NotDrawn

\* The keyboard and the clear button draw the payload only.
TouchKeyboard ==
  /\ view = "Home"
  /\ \E c \in Contents : spec' = [spec EXCEPT !.content = c]
  /\ KeepFiles /\ UNCHANGED current /\ NotDrawn

SelectType ==
  /\ view = "TypePicker"
  /\ \E c \in Contents : spec' = [spec EXCEPT !.content = c]
  /\ KeepFiles /\ UNCHANGED current /\ Show("Home")

CycleOption ==
  /\ view = "Options"
  /\ \E s \in Specs : spec' = s
  /\ KeepFiles /\ UNCHANGED current /\ Show("Options")

\* From the Options screen a failure leads home.
Present(s) ==
  IF view = "Options" /\ ~Succeeds(s, TRUE)
  THEN /\ IF s.content \in Encodable THEN spec' = s /\ current' = Encoded(s) ELSE UNCHANGED symbol
       /\ Show("Home")
  ELSE Generate(s, TRUE)
TouchDisplay == view \in {"Home", "Options"} /\ KeepFiles /\ Present(spec)
TouchRandom ==
  /\ view = "Home" /\ KeepFiles
  /\ \E c \in Encodable : Present([spec EXCEPT !.content = c])

TouchSave ==
  /\ view \in {"Home", "Presets"}
  /\ UNCHANGED symbol /\ KeepSetup
  /\ IF FreeSlots = {} THEN UNCHANGED presets ELSE SavePreset(NextSlot, spec)
  /\ IF view = "Presets" THEN ShowPresets(page, deleting) ELSE NotDrawn

\* In the mutant the rows are not drawn again.
TouchDeleteModeQuietly ==
  /\ view = "Presets" /\ KeepAllButDisplay
  /\ deleting' = ~deleting /\ UNCHANGED <<view, screen, panel, page, unrendered, behind>>

TouchDeleteMode == view = "Presets" /\ KeepAllButDisplay /\ ShowPresets(page, ~deleting)

TurnPage ==
  /\ view = "Presets" /\ KeepAllButDisplay
  /\ \E k \in {IF page = 0 THEN Pages(presets) - 1 ELSE page - 1, (page + 1) % Pages(presets)} :
       ShowPresets(k, deleting)

\* In the mutant a preset that cannot be read is loaded all the same.
LoadRowUnchecked(n) == spec' = presets[n] /\ UNCHANGED current /\ Show("Home")
LoadRow(n) ==
  IF presets[n] = Unreadable THEN UNCHANGED symbol /\ ShowPresets(page, deleting)
  ELSE spec' = presets[n] /\ UNCHANGED current /\ Show("Home")

\* A row means the preset that is there when it is touched.
TouchRow(r) ==
  /\ view = "Presets" /\ page * PageSize + r <= Cardinality(Stored(presets))
  /\ \E n \in Stored(presets) :
       /\ NamesOf(presets)[page * PageSize + r] = n
       /\ IF deleting
          THEN RemovePreset(n) /\ UNCHANGED symbol /\ KeepSetup /\ ShowPresets(page, FALSE)
          ELSE KeepFiles /\ LoadRow(n)

\* The switches of these screens are drawn again whether or not they were saved.
Switch(v) ==
  /\ view = v
  /\ UNCHANGED <<symbol, presets>>
  /\ \E ok \in BOOLEAN : SaveConfig(config, ok)
  /\ Show(v)
TouchSettings == Switch("Settings")
TouchStorage == Switch("Storage")
TouchPower == Switch("Power")

SetOrientation(target, o) ==
  /\ UNCHANGED <<symbol, presets>>
  /\ \E ok \in BOOLEAN :
       /\ SaveConfig([config EXCEPT ![target] = o], ok)
       /\ IF ~ok THEN NotDrawn
          ELSE IF view # "Barcode" THEN Redraw(view)
          ELSE IF target = "barcode" THEN DisplayCurrent ELSE NotDrawn
TouchOrientation ==
  view = "Settings" /\ \E t \in {"barcode", "editor"}, o \in Orientations : SetOrientation(t, o)

\* updateTrustPairingStatus: a code to compare takes the screen, once.
ShowApproval == view # "Trust" /\ KeepAllButDisplay /\ Show("Trust")
-----------------------------------------------------------------------------
(* Commands of a host, over any transport.                                 *)

CommandGenerate(s, shown, saveAs) ==
  /\ KeepSetup
  /\ IF saveAs # NoName /\ Succeeds(s, shown) THEN SavePreset(saveAs, s) ELSE UNCHANGED presets
  /\ Generate(s, shown)

CommandDisplay(name) ==
  /\ KeepFiles
  /\ IF name = NoName THEN UNCHANGED symbol /\ DisplayCurrent
     ELSE IF presets[name] \in {Missing, Unreadable} THEN UNCHANGED symbol /\ NotDrawn
     ELSE Generate(presets[name], TRUE)

CommandLoad(name, shown) ==
  /\ KeepFiles
  /\ IF presets[name] \in {Missing, Unreadable} THEN UNCHANGED symbol /\ NotDrawn
     ELSE Generate(presets[name], shown)

CommandClose == view = "Barcode" /\ KeepAllButDisplay /\ Show("Home")
CommandHome == KeepAllButDisplay /\ Show("Home")

\* save keeps the spec of the moment, unless the symbol is an uploaded one.
CommandSave(name) ==
  /\ KeepSetup /\ UNCHANGED symbol
  /\ IF current # NoSymbol /\ current.raw THEN UNCHANGED presets ELSE SavePreset(name, spec)
  /\ NotDrawn

CommandDelete(name) ==
  RemovePreset(name) /\ KeepSetup /\ UNCHANGED symbol /\ NotDrawn

\* setUploadedMatrix, at the end of an upload.
CommandUpload(c, shown) ==
  /\ KeepFiles /\ UNCHANGED spec
  /\ current' = [raw |-> TRUE, content |-> c]
  /\ IF shown THEN Render ELSE NotDrawn

CommandOrientation ==
  \E t \in {"barcode", "editor"}, o \in Orientations : SetOrientation(t, o)
-----------------------------------------------------------------------------
(* Restarts.                                                               *)

Boot ==
  /\ config' = IF configFile' = Unreadable THEN DefaultConfig ELSE configFile'
  /\ spec' = [content |-> FirstContent, least |-> 2]
  /\ current' = NoSymbol
  /\ page' = 0 /\ deleting' = FALSE
  /\ Draw("Home", <<>>)

Restart == UNCHANGED <<configFile, presets>> /\ Boot

\* The power goes while a file is written.
PowerLoss ==
  /\ \/ configFile' = Unreadable /\ UNCHANGED presets
     \/ /\ \E n \in Names : CanSave(n) /\ presets' = [presets EXCEPT ![n] = Unreadable]
        /\ UNCHANGED configFile
  /\ Boot
-----------------------------------------------------------------------------
Init ==
  /\ spec = [content |-> FirstContent, least |-> 2] /\ current = NoSymbol
  /\ view = "Home" /\ screen = [of |-> "Home", at |-> DefaultOrientation, shows |-> <<>>]
  /\ panel = DefaultOrientation /\ page = 0 /\ deleting = FALSE
  /\ config = DefaultConfig /\ configFile = Unreadable
  /\ presets = [n \in Names |-> Missing]
  /\ unrendered = FALSE /\ behind = FALSE

Touch ==
  \/ TouchNavigate \/ TouchPresets \/ ToggleTheme \/ TouchKeyboard \/ SelectType \/ CycleOption
  \/ TouchDisplay \/ TouchRandom \/ TouchSave \/ TouchDeleteMode \/ TurnPage
  \/ \E r \in 1..PageSize : TouchRow(r)
  \/ TouchSettings \/ TouchStorage \/ TouchPower \/ TouchOrientation

Command ==
  \/ \E s \in Specs, shown \in BOOLEAN, n \in Names \cup {NoName} : CommandGenerate(s, shown, n)
  \/ \E n \in Names \cup {NoName} : CommandDisplay(n)
  \/ \E n \in Names, shown \in BOOLEAN : CommandLoad(n, shown)
  \/ CommandClose \/ CommandHome
  \/ \E n \in Names : CommandSave(n)
  \/ \E n \in Names : CommandDelete(n)
  \/ \E c \in Contents, shown \in BOOLEAN : CommandUpload(c, shown)
  \/ CommandOrientation

Next == Touch \/ ShowApproval \/ Command \/ Restart \/ PowerLoss

Spec == Init /\ [][Next]_vars
-----------------------------------------------------------------------------
TypeOK ==
  /\ spec \in Specs /\ current \in Symbols \cup {NoSymbol}
  /\ view \in Views /\ screen.of \in Views /\ screen.at \in Orientations /\ panel \in Orientations
  /\ config \in Settings /\ configFile \in Settings \cup {Unreadable}
  /\ presets \in [Names -> Specs \cup {Missing, Unreadable}]
  /\ page \in Nat /\ deleting \in BOOLEAN /\ unrendered \in BOOLEAN /\ behind \in BOOLEAN

\* The handler that a touch reaches is that of the screen that is drawn, and
\* unless a symbol did not fit since, the touch is mapped by the orientation in
\* which the screen was drawn, which is the one set for it.
TouchesMeetTheScreen ==
  /\ screen.of = view
  /\ ~unrendered =>
       panel = screen.at /\ panel = (IF view = "Barcode" THEN config.barcode ELSE config.editor)

\* The rows of the Presets screen, and whether a touch deletes, are what the
\* screen says, unless a host changed the presets while it was shown.
RowsAsShown ==
  view = "Presets" /\ ~behind
    => screen.shows = [names |-> Rows(presets, page), deleting |-> deleting]

\* device.json never holds settings other than those in memory: if it can be
\* read, a restart changes nothing, whichever writes failed before.
SettingsOnFlash == configFile \in {config, Unreadable}

\* list() never has more names than slots, and a failed or interrupted write
\* does not open a way past the limit.
PresetLimit == Cardinality(Stored(presets)) <= MaxPresets

\* SAVE on the screen takes a free slot: it changes no preset there is.
TouchSaveKeepsOthers ==
  [][TouchSave => \A n \in Stored(presets) : presets'[n] = presets[n]]_vars
=============================================================================
