-------------------------- MODULE TelegramUiProofs --------------------------
(***************************************************************************)
(* Theorems about the bot's dialog, for any catalogs, presets, filters,    *)
(* cooldowns, alerts and page size: what the draft, the question that is   *)
(* open and the latest message of the wizard have to do with each other.   *)
(***************************************************************************)
EXTENDS TelegramUi, TLAPS

IsMessage(m) == m # Absent => m.at \in Steps /\ m = [at |-> m.at, says |-> m.says]

\* The inductive form of TypeOK: alerts is a function, and the latest message a record.
UiType ==
  /\ TypeOK
  /\ alerts \in [Alert -> {Absent} \cup Saved]
  /\ IsMessage(latest)

\* What the steps before have put into a draft that no step was skipped in.
Consistent(d) ==
  /\ d.step # "rule" => d.rule # Absent
  /\ d.step = "custom_filters" => d.mode = "custom"
  /\ d.step \in {"cooldown", "preview"} => HasProfile(d)
  /\ d.step = "preview" => d.cooldown # Absent

\* As long as only the latest message is answered, it is the one of the draft's step, and
\* a typed cooldown is waited for in the step of cooldowns only.
InOrder ==
  draft # Absent /\ ~strayed =>
    /\ Consistent(draft)
    /\ latest # Absent => latest.at = draft.step
    /\ pending = WizardCooldown => draft.step = "cooldown"

\* A preview that is the latest message shows the draft, which can still be shown.
ShowsDraft ==
  latest # Absent /\ latest.at = "preview" /\ latest.says # Absent /\ draft # Absent =>
    draft.step = "preview" /\ latest.says = Payload(draft) /\ Rendering(draft) = "view"

WaitsForFilters == draft # Absent /\ draft.step = "custom_filters"

\* The form that asked last is the one whose slot is set, or no text is taken at all.
AskedInOrder ==
  /\ asked = "card" => pending \in Card \/ (pending = Absent /\ ~WaitsForFilters)
  /\ asked = "wizard" => pending \notin Card /\ (~strayed => ~WaitsForFilters)
  /\ asked = "filters" =>
       /\ pending \notin Card
       /\ pending = WizardCooldown /\ draft # Absent => WaitsForFilters

\* The step of previews is reached with a cooldown only.
CooldownKnown == draft # Absent /\ draft.step = "preview" => draft.cooldown # Absent

DialogInv == UiType /\ InOrder /\ ShowsDraft /\ AskedInOrder /\ CooldownKnown

-----------------------------------------------------------------------------
(* What the wizard makes of a draft. *)

LEMMA AbsentIs ==
  /\ Absent \notin Rule /\ Absent \notin Preset /\ Absent \notin Nat
  /\ Absent \notin {"preset", "custom"} /\ Absent \notin {"filters", "wizard", "card"}
  /\ Absent # WizardCooldown /\ Absent \notin Card /\ WizardCooldown \notin Card
<1>1. \A c \in Card : c.form = "card" /\ c \in [form : {"card"}, token : Nat]
  BY UiAssumption DEF Card, Token
<1>2. WizardCooldown.form = "wizard" /\ WizardCooldown \in [form : {"wizard"}]
  BY DEF WizardCooldown
<1> QED
  BY <1>1, <1>2, WizardAssumption, UiAssumption

LEMMA MoveTypes ==
  ASSUME NEW d \in Draft
  PROVE  /\ \A r \in Rule : PickRule(d, r) \in Draft
         /\ \A p \in Preset : PickPreset(d, p) \in Draft
         /\ AskFilters(d) \in Draft
         /\ \A f \in Filters : TakeFilters(d, f) \in Draft
         /\ \A s \in Cooldown : TakeCooldown(d, s) \in Draft
         /\ Back(d) \in Draft
<1> USE WizardAssumption DEF Draft, Steps
<1>1. \A r \in Rule : PickRule(d, r) \in Draft
  BY DEF PickRule
<1>2. \A p \in Preset : PickPreset(d, p) \in Draft
  BY DEF PickPreset
<1>3. AskFilters(d) \in Draft
  BY DEF AskFilters
<1>4. \A f \in Filters : TakeFilters(d, f) \in Draft
  BY DEF TakeFilters
<1>5. \A s \in Cooldown : TakeCooldown(d, s) \in Draft
  BY DEF TakeCooldown
<1>6. Back(d) \in Draft
  BY DEF Back
<1> QED
  BY <1>1, <1>2, <1>3, <1>4, <1>5, <1>6

LEMMA FreshDraft ==
  ASSUME NEW c \in Catalogs
  PROVE  Fresh(c) \in Draft /\ Fresh(c).step = "rule" /\ Consistent(Fresh(c))
BY DEF Fresh, Draft, Steps, Consistent

\* What is rendered as a view, and what is not.
LEMMA Renders ==
  ASSUME NEW d \in Draft
  PROVE  /\ Consistent(d) => Rendering(d) = "view"
         /\ Rendering(d) = "view" /\ d.step = "preview"
              => d.rule # Absent /\ HasProfile(d) /\ d.cooldown # Absent
         /\ d.rule # Absent /\ d.step = "sensitivity" => Rendering(d) = "view"
         /\ d.step \in {"rule", "custom_filters"} => Rendering(d) = "view"
         /\ d.rule # Absent /\ HasProfile(d) /\ d.step = "cooldown" => Rendering(d) = "view"
         /\ d.rule # Absent /\ HasProfile(d) /\ d.step = "preview" /\ d.cooldown # Absent
              => Rendering(d) = "view"
<1>1. d.step \in Steps
  BY DEF Draft
<1> QED
  BY <1>1 DEF Consistent, Rendering, Steps

\* The draft d is one that a button or a text may leave: one that steps lead to if the
\* latest message was answered, and one that can be shown if a preview was.
Sound(d, stray) ==
  /\ draft # Absent /\ d \in Draft /\ stray \in BOOLEAN
  /\ d.step = "preview" => d.cooldown # Absent
  /\ ~strayed /\ ~stray => Consistent(d)
  /\ draft.step = "preview" /\ Rendering(draft) = "view" => Rendering(d) = "view"

LEMMA StrayIs ==
  ASSUME NEW at, NEW stray \in Stray(at)
  PROVE  stray \in BOOLEAN /\ (~stray => latest # Absent /\ latest.at = at)
BY DEF Stray

Saves == \E d, stray : Save(d, stray) /\ Sound(d, stray)

\* The buttons and texts that save a draft leave a sound one.
LEMMA SavingMoves ==
  ASSUME DialogInv
  PROVE  /\ \A i : WizardRule(i) => Saves
         /\ \A p \in Preset : WizardPreset(p) => Saves
         /\ WizardCustomFilters => Saves
         /\ WizardSkipFilters => Saves
         /\ \A seconds \in Cooldown : WizardCooldownPreset(seconds) => Saves
         /\ WizardBack => Saves
         /\ \A f \in Filters : TextForFilters(f) /\ <<f, draft.rule>> \in Fits => Saves
         /\ \A seconds \in Cooldown : TextForCooldown(seconds) => Saves
<1>D. draft # Absent => draft \in Draft
  BY DEF DialogInv, UiType, TypeOK
<1>1. ASSUME NEW i, WizardRule(i) PROVE Saves
  <2>1. PICK stray \in Stray("rule") : Save(PickRule(draft, catalog'[i]), stray)
    BY <1>1 DEF WizardRule
  <2>2. draft # Absent /\ draft \in Draft /\ catalog'[i] \in Rule
    BY <1>1, <1>D, WizardAssumption DEF WizardRule, InStep
  <2> DEFINE d == PickRule(draft, catalog'[i])
  <2>3. d \in Draft /\ d.rule # Absent /\ d.step = "sensitivity"
    BY <2>2, MoveTypes, AbsentIs DEF PickRule, Draft
  <2> HIDE DEF d
  <2>4. Consistent(d) /\ Rendering(d) = "view"
    BY <2>3, Renders DEF Consistent
  <2>5. Sound(d, stray)
    BY <2>2, <2>3, <2>4, StrayIs DEF Sound
  <2> QED
    BY <2>1, <2>5 DEF Saves, d
<1>2. ASSUME NEW p \in Preset, WizardPreset(p) PROVE Saves
  <2>1. PICK stray \in Stray("sensitivity") : Save(PickPreset(draft, p), stray)
    BY <1>2 DEF WizardPreset
  <2>2. draft # Absent /\ draft \in Draft /\ draft.rule # Absent
    BY <1>2, <1>D DEF WizardPreset, InStep
  <2> DEFINE d == PickPreset(draft, p)
  <2>3. d \in Draft /\ d.rule # Absent /\ d.step = "cooldown" /\ HasProfile(d)
    BY <2>2, MoveTypes, AbsentIs DEF PickPreset, Draft, HasProfile
  <2> HIDE DEF d
  <2>4. Consistent(d) /\ Rendering(d) = "view"
    BY <2>3, Renders DEF Consistent
  <2>5. Sound(d, stray)
    BY <2>2, <2>3, <2>4, StrayIs DEF Sound
  <2> QED
    BY <2>1, <2>5 DEF Saves, d
<1>3. ASSUME WizardCustomFilters PROVE Saves
  <2>1. PICK stray \in Stray("sensitivity") : Save(AskFilters(draft), stray)
    BY <1>3 DEF WizardCustomFilters
  <2>2. draft \in Draft /\ draft # Absent
    BY <1>3, <1>D DEF WizardCustomFilters, InStep
  <2> DEFINE d == AskFilters(draft)
  <2>3. d \in Draft /\ d.rule = draft.rule /\ d.step = "custom_filters" /\ d.mode = "custom"
    BY <2>2, MoveTypes DEF AskFilters, Draft
  <2> HIDE DEF d
  <2>4. ~strayed /\ ~stray => draft.step = "sensitivity" /\ draft.rule # Absent
    BY <2>2, StrayIs DEF DialogInv, InOrder, Consistent
  <2>5. Rendering(d) = "view"
    BY <2>3, Renders
  <2>6. Sound(d, stray)
    BY <2>2, <2>3, <2>4, <2>5, StrayIs DEF Sound, Consistent
  <2> QED
    BY <2>1, <2>6 DEF Saves, d
<1>F. ASSUME NEW f \in Filters, draft # Absent, draft.step = "custom_filters",
             NEW stray \in BOOLEAN, Save(TakeFilters(draft, f), stray)
      PROVE  Saves
  <2>1. draft \in Draft
    BY <1>D, <1>F
  <2> DEFINE d == TakeFilters(draft, f)
  <2>2. d \in Draft /\ d.rule = draft.rule /\ d.step = "cooldown" /\ d.mode = draft.mode
    BY <2>1, MoveTypes DEF TakeFilters, Draft
  <2> HIDE DEF d
  <2>3. ~strayed => Consistent(d)
    BY <1>F, <2>2 DEF DialogInv, InOrder, Consistent, HasProfile
  <2>4. Sound(d, stray)
    BY <1>F, <2>2, <2>3 DEF Sound
  <2> QED
    BY <1>F, <2>4 DEF Saves, d
<1>4. ASSUME WizardSkipFilters PROVE Saves
  <2>1. PICK stray \in Stray("custom_filters") : Save(TakeFilters(draft, NoFilters), stray)
    BY <1>4 DEF WizardSkipFilters
  <2> QED
    BY <1>4, <1>F, <2>1, WizardAssumption, StrayIs DEF WizardSkipFilters, InStep
<1>C. ASSUME NEW seconds \in Cooldown, draft # Absent, NEW stray \in BOOLEAN,
             ~strayed /\ ~stray => draft.step = "cooldown",
             Save(TakeCooldown(draft, seconds), stray)
      PROVE  Saves
  <2>1. draft \in Draft
    BY <1>D, <1>C
  <2> DEFINE d == TakeCooldown(draft, seconds)
  <2>2. /\ d \in Draft /\ d.rule = draft.rule /\ d.step = "preview" /\ d.cooldown # Absent
        /\ HasProfile(d) <=> HasProfile(draft)
    BY <2>1, MoveTypes, WizardAssumption DEF TakeCooldown, Draft, HasProfile
  <2> HIDE DEF d
  <2>3. ~strayed /\ ~stray => Consistent(d)
    BY <1>C, <2>2 DEF DialogInv, InOrder, Consistent
  <2>4. draft.step = "preview" /\ Rendering(draft) = "view" => Rendering(d) = "view"
    BY <2>1, <2>2, Renders
  <2>5. Sound(d, stray)
    BY <1>C, <2>2, <2>3, <2>4 DEF Sound
  <2> QED
    BY <1>C, <2>5 DEF Saves, d
<1>5. ASSUME NEW seconds \in Cooldown, WizardCooldownPreset(seconds) PROVE Saves
  <2>1. PICK stray \in Stray("cooldown") : Save(TakeCooldown(draft, seconds), stray)
    BY <1>5 DEF WizardCooldownPreset
  <2>2. draft # Absent
    BY <1>5 DEF WizardCooldownPreset, InStep
  <2>3. stray \in BOOLEAN /\ (~strayed /\ ~stray => draft.step = "cooldown")
    BY <2>2, StrayIs DEF DialogInv, InOrder
  <2> QED
    BY <1>C, <2>1, <2>2, <2>3
<1>6. ASSUME WizardBack PROVE Saves
  <2>1. PICK at \in Steps \ {"rule"} : \E stray \in Stray(at) : Save(Back(draft), stray)
    BY <1>6 DEF WizardBack
  <2>2. PICK stray \in Stray(at) : Save(Back(draft), stray)
    BY <2>1
  <2>3. draft # Absent /\ draft \in Draft /\ draft.step \in Steps
    BY <1>6, <1>D DEF WizardBack, InStep, Draft
  <2> DEFINE d == Back(draft)
  <2>4. d \in Draft
    BY <2>3, MoveTypes
  <2>5. (Consistent(draft) => Consistent(d)) /\ d.step # "preview"
    BY <2>3 DEF Back, Consistent, HasProfile, Draft, Steps
  <2>6. draft.step = "preview" => d.step = "cooldown" /\ d.rule = draft.rule
                                  /\ (HasProfile(d) <=> HasProfile(draft))
    BY <2>3 DEF Back, HasProfile, Draft
  <2> HIDE DEF d
  <2>7. draft.step = "preview" /\ Rendering(draft) = "view" => Rendering(d) = "view"
    BY <2>3, <2>4, <2>6, Renders
  <2>8. Sound(d, stray)
    BY <2>3, <2>4, <2>5, <2>7, StrayIs DEF Sound, DialogInv, InOrder
  <2> QED
    BY <2>2, <2>8 DEF Saves, d
<1>7. ASSUME NEW f \in Filters, TextForFilters(f), <<f, draft.rule>> \in Fits PROVE Saves
  BY <1>7, <1>F DEF TextForFilters, ForWizard
<1>8. ASSUME NEW seconds \in Cooldown, TextForCooldown(seconds) PROVE Saves
  <2>1. draft # Absent /\ pending = WizardCooldown /\ Save(TakeCooldown(draft, seconds), FALSE)
    BY <1>8 DEF TextForCooldown, ForWizard
  <2>2. ~strayed => draft.step = "cooldown"
    BY <2>1 DEF DialogInv, InOrder
  <2> QED
    BY <1>C, <2>1, <2>2
<1> QED
  BY <1>1, <1>2, <1>3, <1>4, <1>5, <1>6, <1>7, <1>8

-----------------------------------------------------------------------------
(* What a step does to the dialog, one kind of step after the other. *)

LEMMA MessageIs ==
  ASSUME NEW d \in Draft
  PROVE  LET m == Message(d)
         IN /\ m.at = d.step /\ m.at \in Steps /\ m = [at |-> m.at, says |-> m.says]
            /\ m.at = "preview" => m.says = Payload(d)
BY DEF Message, Draft, Steps

\* The message that is lost says nothing any more.
LEMMA LostIs ==
  ASSUME UiType, AnswerLost
  PROVE  /\ strayed' /\ asked' = Absent
         /\ latest' # Absent => latest'.says = Absent
BY DEF AnswerLost, UiType, IsMessage

LEMMA DialogStays ==
  ASSUME DialogInv, UiType', UNCHANGED <<draft, pending, latest, asked, strayed>>
  PROVE  DialogInv'
BY DEF DialogInv, InOrder, ShowsDraft, CooldownKnown, AskedInOrder, WaitsForFilters

LEMMA DialogCleared ==
  ASSUME DialogInv, UiType', draft' = Absent, pending' = Absent
  PROVE  DialogInv'
BY AbsentIs DEF DialogInv, InOrder, ShowsDraft, CooldownKnown, AskedInOrder, WaitsForFilters

LEMMA DialogBegins ==
  ASSUME DialogInv, UiType', Begin
  PROVE  DialogInv'
<1>1. /\ Fresh(catalog) \in Draft /\ Fresh(catalog).step = "rule" /\ Consistent(Fresh(catalog))
  BY FreshDraft DEF DialogInv, UiType, TypeOK
<1>2. draft' = Fresh(catalog) /\ pending' = Absent /\ asked' = Absent
  BY DEF Begin, AnswerLost
<1>3. AskedInOrder'
  BY <1>1, <1>2, AbsentIs DEF AskedInOrder
<1>4. CASE latest' = Message(Fresh(catalog)) /\ strayed' = FALSE
  <2>1. latest'.at = "rule"
    BY <1>1, <1>4, MessageIs
  <2> QED
    BY <1>1, <1>2, <1>3, <2>1, AbsentIs DEF DialogInv, InOrder, ShowsDraft, CooldownKnown
<1>5. CASE AnswerLost
  <2>1. strayed' /\ (latest' # Absent => latest'.says = Absent)
    BY <1>5, LostIs DEF DialogInv
  <2> QED
    BY <1>1, <1>2, <1>3, <2>1 DEF DialogInv, InOrder, ShowsDraft, CooldownKnown
<1> QED
  BY <1>4, <1>5 DEF Begin

LEMMA DialogSaves ==
  ASSUME DialogInv, UiType', Saves
  PROVE  DialogInv'
<1>1. PICK d, stray : Save(d, stray) /\ Sound(d, stray)
  BY DEF Saves
<1>2. draft' = d /\ pending' = Absent /\ d \in Draft /\ stray \in BOOLEAN
  BY <1>1 DEF Save, SaveDraft, Sound
<1>3. ~strayed /\ ~stray => Consistent(d)
  BY <1>1 DEF Sound
<1>4. Rendering(d) # "view" => d.step # "custom_filters"
  BY <1>2, Renders
<1>K. CooldownKnown'
  BY <1>1, <1>2 DEF Sound, CooldownKnown
<1>5. CASE Rendering(d) = "view" /\ Arrives(Message(d), Question(d), stray)
  <2>1. /\ latest' = Message(d) /\ asked' = Question(d)
        /\ strayed' = (strayed \/ stray)
    BY <1>5 DEF Arrives
  <2>2. latest'.at = d.step /\ (latest'.at = "preview" => latest'.says = Payload(d))
    BY <1>2, <2>1, MessageIs
  <2>3. InOrder'
    BY <1>2, <1>3, <2>1, <2>2, AbsentIs DEF InOrder
  <2>4. ShowsDraft'
    BY <1>2, <1>5, <2>2 DEF ShowsDraft
  <2>5. AskedInOrder'
    BY <1>2, <2>1, AbsentIs DEF AskedInOrder, Question, WaitsForFilters
  <2> QED
    BY <1>K, <2>3, <2>4, <2>5 DEF DialogInv
<1>6. CASE AnswerLost
  <2>1. strayed' /\ asked' = Absent /\ (latest' # Absent => latest'.says = Absent)
    BY <1>6, LostIs DEF DialogInv
  <2> QED
    BY <1>K, <2>1, AbsentIs DEF DialogInv, InOrder, ShowsDraft, CooldownKnown, AskedInOrder
<1>7. CASE Rendering(d) # "view" /\ NoMessage(stray)
  <2>1. strayed' = (strayed \/ stray) /\ UNCHANGED <<latest, asked>>
    BY <1>7 DEF NoMessage
  <2>2. strayed'
    BY <1>2, <1>3, <1>7, <2>1, Renders
  <2>3. ShowsDraft'
    <3>1. SUFFICES ASSUME latest # Absent, latest.at = "preview", latest.says # Absent
                   PROVE  FALSE
      BY <2>1 DEF ShowsDraft
    <3>2. draft # Absent => draft.step = "preview" /\ Rendering(draft) = "view"
      BY <3>1 DEF DialogInv, ShowsDraft, CooldownKnown
    <3> QED
      BY <1>1, <1>7, <3>2 DEF Sound
  <2>4. AskedInOrder'
    BY <1>2, <1>4, <1>7, <2>1, AbsentIs DEF AskedInOrder, WaitsForFilters, DialogInv
  <2> QED
    BY <1>K, <2>2, <2>3, <2>4 DEF DialogInv, InOrder
<1> QED
  BY <1>1, <1>5, <1>6, <1>7 DEF Save

LEMMA DialogAsksCooldown ==
  ASSUME DialogInv, UiType', WizardAskCooldown
  PROVE  DialogInv'
<1>1. /\ draft # Absent /\ draft' = draft /\ pending' = WizardCooldown
  BY DEF WizardAskCooldown, InStep
<1>2. PICK stray \in Stray("cooldown") :
        \/ Arrives([at |-> "cooldown", says |-> Absent], "wizard", stray)
        \/ AnswerLost
  BY DEF WizardAskCooldown
<1>3. stray \in BOOLEAN /\ (~stray => latest # Absent /\ latest.at = "cooldown")
  BY <1>2, StrayIs
<1>4. CASE Arrives([at |-> "cooldown", says |-> Absent], "wizard", stray)
  <2>1. /\ latest'.at = "cooldown" /\ strayed' = (strayed \/ stray)
        /\ asked' = "wizard"
    BY <1>4 DEF Arrives
  <2>2. ~strayed' => draft.step = "cooldown" /\ Consistent(draft)
    BY <1>1, <1>3, <2>1 DEF DialogInv, InOrder
  <2>3. InOrder'
    BY <1>1, <2>1, <2>2 DEF InOrder
  <2>4. ShowsDraft'
    BY <2>1 DEF ShowsDraft
  <2>5. AskedInOrder'
    BY <1>1, <2>1, <2>2, AbsentIs DEF AskedInOrder, WaitsForFilters
  <2> QED
    BY <1>1, <2>3, <2>4, <2>5 DEF DialogInv, CooldownKnown
<1>5. CASE AnswerLost
  <2>1. strayed' /\ asked' = Absent /\ (latest' # Absent => latest'.says = Absent)
    BY <1>5, LostIs DEF DialogInv
  <2> QED
    BY <1>1, <2>1, AbsentIs DEF DialogInv, InOrder, ShowsDraft, CooldownKnown, AskedInOrder
<1> QED
  BY <1>2, <1>4, <1>5

LEMMA DialogTextRefused ==
  ASSUME DialogInv, UiType', TextRefused
  PROVE  DialogInv'
<1>1. draft # Absent /\ pending = WizardCooldown /\ UNCHANGED <<draft, pending>>
  BY DEF TextRefused, ForWizard, session
<1>2. CASE Arrives([at |-> "cooldown", says |-> Absent], asked, FALSE)
  <2>1. latest'.at = "cooldown" /\ strayed' = strayed /\ asked' = asked
    BY <1>2 DEF Arrives, DialogInv, UiType, TypeOK
  <2>2. ~strayed => draft.step = "cooldown"
    BY <1>1 DEF DialogInv, InOrder
  <2> QED
    BY <1>1, <2>1, <2>2 DEF DialogInv, InOrder, ShowsDraft, CooldownKnown, AskedInOrder,
       WaitsForFilters
<1>3. CASE AnswerLost
  <2>1. strayed' /\ asked' = Absent /\ (latest' # Absent => latest'.says = Absent)
    BY <1>3, LostIs DEF DialogInv
  <2> QED
    BY <1>1, <2>1, AbsentIs DEF DialogInv, InOrder, ShowsDraft, CooldownKnown, AskedInOrder
<1> QED
  BY <1>2, <1>3 DEF TextRefused

LEMMA DialogRefused ==
  ASSUME DialogInv, UiType', WizardRefused
  PROVE  DialogInv'
<1>1. draft.step = "preview" /\ draft # Absent /\ UNCHANGED <<draft, pending>>
  BY DEF WizardRefused, InStep, session
<1>2. PICK stray \in Stray("preview") :
        Arrives([at |-> "preview", says |-> Absent], asked, stray) \/ AnswerLost
  BY DEF WizardRefused
<1>3. CASE Arrives([at |-> "preview", says |-> Absent], asked, stray)
  <2>1. /\ latest'.at = "preview" /\ latest'.says = Absent
        /\ strayed' = (strayed \/ stray) /\ asked' = asked
    BY <1>3 DEF Arrives
  <2> QED
    BY <1>1, <2>1 DEF DialogInv, InOrder, ShowsDraft, CooldownKnown, AskedInOrder, WaitsForFilters
<1>4. CASE AnswerLost
  <2>1. strayed' /\ asked' = Absent /\ (latest' # Absent => latest'.says = Absent)
    BY <1>4, LostIs DEF DialogInv
  <2> QED
    BY <1>1, <2>1, AbsentIs DEF DialogInv, InOrder, ShowsDraft, CooldownKnown, AskedInOrder
<1> QED
  BY <1>2, <1>3, <1>4

\* The card's question for a cooldown, and its answer.
LEMMA DialogCardAsks ==
  ASSUME DialogInv, UiType', UNCHANGED <<draft, latest, strayed>>, pending' \in Card,
         asked' \in {"card", Absent}
  PROVE  DialogInv'
BY AbsentIs DEF DialogInv, InOrder, ShowsDraft, CooldownKnown, AskedInOrder

LEMMA DialogCardAnswered ==
  ASSUME DialogInv, UiType', UNCHANGED <<draft, latest, strayed>>, pending' = Absent,
         asked' = IF asked = "card" THEN Absent ELSE asked
  PROVE  DialogInv'
BY AbsentIs DEF DialogInv, InOrder, ShowsDraft, CooldownKnown, AskedInOrder, WaitsForFilters

\* The step of the draft is shown again, or its question is asked again.
ShownAgain ==
  /\ UNCHANGED <<draft, pending>> /\ draft # Absent
  /\ WaitsForFilters => pending \notin Card
  /\ \/ /\ Rendering(draft) = "view"
        /\ Arrives(Message(draft), Question(draft), FALSE) \/ AnswerLost
     \/ NoMessage(FALSE)

LEMMA DialogShownAgain ==
  ASSUME DialogInv, UiType', ShownAgain
  PROVE  DialogInv'
<1>1. draft \in Draft /\ draft # Absent /\ UNCHANGED <<draft, pending>> /\ strayed \in BOOLEAN
  BY DEF ShownAgain, DialogInv, UiType, TypeOK
<1>2. CASE Rendering(draft) = "view" /\ Arrives(Message(draft), Question(draft), FALSE)
  <2>1. /\ latest'.at = draft.step /\ (latest'.at = "preview" => latest'.says = Payload(draft))
        /\ strayed' = strayed /\ asked' = Question(draft)
    BY <1>1, <1>2, MessageIs DEF Arrives
  <2>2. InOrder' /\ ShowsDraft'
    BY <1>1, <1>2, <2>1 DEF DialogInv, InOrder, ShowsDraft, CooldownKnown
  <2>3. AskedInOrder'
    BY <1>1, <2>1, AbsentIs DEF AskedInOrder, Question, WaitsForFilters, ShownAgain
  <2> QED
    BY <1>1, <2>2, <2>3 DEF DialogInv, CooldownKnown
<1>3. CASE AnswerLost
  <2>1. strayed' /\ asked' = Absent /\ (latest' # Absent => latest'.says = Absent)
    BY <1>3, LostIs DEF DialogInv
  <2> QED
    BY <1>1, <2>1, AbsentIs DEF DialogInv, InOrder, ShowsDraft, CooldownKnown, AskedInOrder
<1>4. CASE NoMessage(FALSE)
  <2>1. UNCHANGED <<latest, asked, strayed>>
    BY <1>1, <1>4 DEF NoMessage
  <2> QED
    BY <1>1, <2>1, DialogStays
<1> QED
  BY <1>2, <1>3, <1>4 DEF ShownAgain

-----------------------------------------------------------------------------
(* Type correctness. *)

LEMMA AlertWritten ==
  ASSUME UiType, NEW b \in Alert, NEW saved \in {Absent} \cup Saved,
         alerts' = [alerts EXCEPT ![b] = saved]
  PROVE  alerts' \in [Alert -> {Absent} \cup Saved]
BY DEF UiType

LEMMA SavedUpdates ==
  ASSUME UiType, NEW b \in Alert, Exists(b)
  PROVE  /\ [alerts[b] EXCEPT !.enabled = ~@] \in Saved
         /\ \A seconds \in Cooldown : [alerts[b] EXCEPT !.cooldown = seconds] \in Saved
<1>1. alerts[b] \in Saved
  BY DEF UiType, Exists
<1> QED
  BY <1>1, WizardAssumption DEF Saved

\* The variables of the dialog, and those of the alerts, have their types after a step.
DialogTyped ==
  /\ draft \in Draft \cup {Absent}
  /\ pending \in Card \cup {WizardCooldown, Absent}
  /\ IsMessage(latest)
  /\ asked \in {Absent, "filters", "wizard", "card"} /\ strayed \in BOOLEAN

AlertsTyped ==
  /\ DOMAIN index \subseteq Token /\ \A t \in DOMAIN index : index[t] \in Alert
  /\ alerts \in [Alert -> {Absent} \cup Saved]
  /\ cards \subseteq Token \X Alert

CountsTyped == catalog \in Catalogs /\ made \in Nat /\ lost \in 0 .. MaxLost

LEMMA UiTyped == UiType <=> DialogTyped /\ AlertsTyped /\ CountsTyped
<1>1. alerts \in [Alert -> {Absent} \cup Saved]
        => \A a \in Alert : alerts[a] = Absent \/ alerts[a] \in Saved
  OBVIOUS
<1>2. IsMessage(latest) => (latest = Absent \/ latest.at \in Steps)
  BY DEF IsMessage
<1> QED
  BY <1>1, <1>2 DEF UiType, TypeOK, DialogTyped, AlertsTyped, CountsTyped

LEMMA TypeInit == Init => UiType
<1> SUFFICES ASSUME Init PROVE UiType
  OBVIOUS
<1>1. DialogTyped
  BY DEF Init, DialogTyped, IsMessage
<1>2. [enabled : {TRUE}, cooldown : {CustomCooldown}] \subseteq Saved
  BY WizardAssumption DEF Saved
<1>3. AlertsTyped
  <2>1. DOMAIN index = {}
    BY DEF Init
  <2>2. alerts \in [Alert -> {Absent} \cup Saved]
    BY <1>2 DEF Init
  <2>3. cards = {}
    BY DEF Init
  <2> QED
    BY <2>1, <2>2, <2>3 DEF AlertsTyped
<1>4. CountsTyped
  BY UiAssumption DEF Init, CountsTyped
<1> QED
  BY <1>1, <1>3, <1>4, UiTyped

LEMMA UiTypedNext == DialogTyped' /\ AlertsTyped' /\ CountsTyped' => UiType'
BY UiTyped, PTL

LEMMA LostTyped ==
  ASSUME UiType, AnswerLost
  PROVE  IsMessage(latest)' /\ asked' = Absent /\ strayed' = TRUE
<1>1. CASE latest = Absent
  BY <1>1 DEF AnswerLost, IsMessage
<1>2. CASE latest # Absent
  <2>1. latest' = [at |-> latest.at, says |-> Absent] /\ latest.at \in Steps
    BY <1>2 DEF AnswerLost, UiType, IsMessage
  <2> QED
    BY <2>1 DEF AnswerLost, IsMessage
<1> QED
  BY <1>1, <1>2 DEF AnswerLost

LEMMA MessageTyped ==
  ASSUME NEW d \in Draft, latest' = Message(d)
  PROVE  IsMessage(latest)'
BY MessageIs DEF IsMessage

LEMMA BeginTyped ==
  ASSUME DialogInv, Begin
  PROVE  UiType'
<1>1. Fresh(catalog) \in Draft /\ catalog \in Catalogs
  BY FreshDraft DEF DialogInv, UiType, TypeOK
<1>2. IsMessage(latest)' /\ asked' = Absent /\ strayed' \in BOOLEAN
  BY <1>1, MessageTyped, LostTyped DEF Begin, DialogInv
<1>3. DialogTyped'
  BY <1>1, <1>2 DEF Begin, DialogTyped
<1>4. AlertsTyped' /\ CountsTyped'
  BY UiTyped, UiAssumption DEF DialogInv, Begin, Elsewhere, AlertsTyped, CountsTyped
<1> QED
  BY <1>3, <1>4, UiTyped, PTL

\* What a step leaves alone keeps its type.
LEMMA TypesKept ==
  ASSUME UiType
  PROVE  /\ UNCHANGED <<draft, pending, latest, asked, strayed>> => DialogTyped'
         /\ UNCHANGED <<index, alerts, cards>> => AlertsTyped'
         /\ UNCHANGED <<catalog, made, lost>> => CountsTyped'
<1>1. DialogTyped /\ AlertsTyped /\ CountsTyped
  BY UiTyped
<1>2. UNCHANGED <<draft, pending, latest, asked, strayed>> => DialogTyped'
  BY <1>1 DEF DialogTyped, IsMessage
<1>3. UNCHANGED <<index, alerts, cards>> => AlertsTyped'
  BY <1>1 DEF AlertsTyped
<1>4. UNCHANGED <<catalog, made, lost>> => CountsTyped'
  BY <1>1 DEF CountsTyped
<1> QED
  BY <1>2, <1>3, <1>4

\* After an arrival of a message that is one, or after its loss, the dialog has its type.
LEMMA AnsweredTyped ==
  ASSUME UiType, NEW m, NEW question, NEW stray \in BOOLEAN,
         draft' \in Draft \cup {Absent}, pending' \in Card \cup {WizardCooldown, Absent},
         m.at \in Steps, m = [at |-> m.at, says |-> m.says],
         question \in {Absent, "filters", "wizard", "card"},
         Arrives(m, question, stray) \/ AnswerLost \/ NoMessage(stray)
  PROVE  DialogTyped'
<1>1. DialogTyped
  BY UiTyped
<1>2. CASE Arrives(m, question, stray)
  BY <1>1, <1>2 DEF Arrives, DialogTyped, IsMessage
<1>3. CASE AnswerLost
  BY <1>3, LostTyped DEF DialogTyped
<1>4. CASE NoMessage(stray)
  BY <1>1, <1>4 DEF NoMessage, DialogTyped, IsMessage
<1> QED
  BY <1>2, <1>3, <1>4

LEMMA SavesTyped ==
  ASSUME DialogInv, Saves, catalog' \in Catalogs
  PROVE  UiType'
<1>1. PICK d, stray : Save(d, stray) /\ Sound(d, stray)
  BY DEF Saves
<1>2. draft' = d /\ pending' = Absent /\ d \in Draft /\ stray \in BOOLEAN /\ UiType
  BY <1>1 DEF Save, SaveDraft, Sound, DialogInv
<1> DEFINE m == Message(d)
<1>3. m.at \in Steps /\ m = [at |-> m.at, says |-> m.says]
  BY <1>2, MessageIs
<1>4. Question(d) \in {Absent, "filters", "wizard", "card"}
  BY DEF Question
<1>5. Arrives(m, Question(d), stray) \/ AnswerLost \/ NoMessage(stray)
  BY <1>1 DEF Save
<1> HIDE DEF m
<1>6. DialogTyped'
  BY <1>2, <1>3, <1>4, <1>5, AnsweredTyped
<1>7. AlertsTyped'
  BY <1>1, <1>2, TypesKept DEF Save, Elsewhere
<1>8. CountsTyped'
  BY <1>1, <1>2, UiTyped DEF Save, CountsTyped
<1> QED
  BY <1>6, <1>7, <1>8, UiTypedNext

LEMMA ShownAgainTyped ==
  ASSUME DialogInv, ShownAgain, UNCHANGED <<index, alerts, cards, catalog, made, lost>>
  PROVE  UiType'
<1>1. draft \in Draft /\ UNCHANGED <<draft, pending>> /\ UiType
  BY DEF ShownAgain, DialogInv, UiType, TypeOK
<1> DEFINE m == Message(draft)
<1>2. m.at \in Steps /\ m = [at |-> m.at, says |-> m.says]
  BY <1>1, MessageIs
<1>3. Question(draft) \in {Absent, "filters", "wizard", "card"}
  BY DEF Question
<1>4. Arrives(m, Question(draft), FALSE) \/ AnswerLost \/ NoMessage(FALSE)
  BY DEF ShownAgain
<1> HIDE DEF m
<1>5. draft' \in Draft \cup {Absent} /\ pending' \in Card \cup {WizardCooldown, Absent}
  BY <1>1 DEF UiType, TypeOK
<1>6. DialogTyped'
  BY <1>1, <1>2, <1>3, <1>4, <1>5, AnsweredTyped
<1> QED
  BY <1>1, <1>6, TypesKept, UiTypedNext

LEMMA ClearedTyped ==
  ASSUME UiType, ClearSession, catalog' = catalog,
         alerts' \in [Alert -> {Absent} \cup Saved], cards' = cards,
         made' = 0 /\ lost' = 0, strayed' \in BOOLEAN,
         latest' = Absent \/ latest' = latest, asked' = Absent \/ asked' = asked
  PROVE  UiType'
<1>1. DialogTyped /\ AlertsTyped /\ CountsTyped
  BY UiTyped
<1>2. DialogTyped'
  BY <1>1 DEF ClearSession, DialogTyped, IsMessage
<1>3. AlertsTyped'
  BY <1>1 DEF ClearSession, AlertsTyped
<1>4. CountsTyped'
  BY <1>1, UiAssumption DEF CountsTyped
<1> QED
  BY <1>2, <1>3, <1>4, UiTypedNext

\* A step that leaves the dialog alone, or forgets it.
LEMMA StaysDialog ==
  ASSUME DialogInv, UNCHANGED <<draft, pending, latest, asked, strayed>>,
         AlertsTyped', CountsTyped'
  PROVE  DialogInv'
<1>1. DialogTyped'
  BY TypesKept DEF DialogInv
<1> QED
  BY <1>1, UiTypedNext, DialogStays

LEMMA AlertsWritten ==
  ASSUME UiType, UNCHANGED <<index, cards>>, alerts' \in [Alert -> {Absent} \cup Saved]
  PROVE  AlertsTyped'
BY UiTyped DEF AlertsTyped

LEMMA CardShown ==
  ASSUME UiType, NEW token \in Token, NEW b \in Alert, Shows(token, b) \/ UNCHANGED cards,
         UNCHANGED index, alerts' \in [Alert -> {Absent} \cup Saved]
  PROVE  AlertsTyped'
BY UiTyped DEF AlertsTyped, Shows

LEMMA Updated ==
  ASSUME UiType, NEW b \in Alert, NEW saved \in {Absent} \cup Saved, Update(b, saved)
  PROVE  alerts' \in [Alert -> {Absent} \cup Saved]
BY AlertWritten DEF Update, UiType

-----------------------------------------------------------------------------
(* Every step keeps the invariant. *)

LEMMA BeginKeeps ==
  ASSUME DialogInv, Begin
  PROVE  DialogInv'
BY BeginTyped, DialogBegins

LEMMA ConfirmKeeps ==
  ASSUME DialogInv, NEW a \in Alert, WizardConfirm(a)
  PROVE  DialogInv'
<1>1. draft \in Draft /\ draft.cooldown \in Nat /\ UiType
  BY DEF WizardConfirm, InStep, DialogInv, UiType, TypeOK, CooldownKnown, Draft
<1>2. [enabled |-> TRUE, cooldown |-> draft.cooldown] \in Saved
  BY <1>1 DEF Saved
<1>3. alerts' \in [Alert -> {Absent} \cup Saved]
  BY <1>1, <1>2, AlertWritten DEF WizardConfirm, Created
<1>4. CASE ClearSession
  <2>1. CASE draft' = Absent /\ Forget /\ strayed' = FALSE
             /\ ((latest' = Absent /\ asked' = Absent) \/ UNCHANGED <<latest, asked>>)
    <3>1. UiType'
      BY <1>1, <1>3, <1>4, <2>1, ClearedTyped DEF WizardConfirm, Forget
    <3> QED
      BY <1>4, <3>1, DialogCleared DEF ClearSession
  <2>2. CASE lost < MaxLost /\ UNCHANGED session
    BY <1>4, <2>2 DEF ClearSession, session, WizardConfirm, InStep
  <2> QED
    BY <1>4, <2>1, <2>2 DEF WizardConfirm, ClearSession
<1>5. CASE /\ lost < MaxLost /\ made' = made + 1 /\ lost' = lost + 1
           /\ UNCHANGED session /\ NoMessage(FALSE)
  <2>1. UNCHANGED <<draft, pending, index, latest, asked>> /\ strayed' = strayed
    BY <1>1, <1>5 DEF NoMessage, session, UiType, TypeOK
  <2>2. AlertsTyped'
    BY <1>1, <1>3, <2>1, AlertsWritten DEF WizardConfirm
  <2>3. CountsTyped'
    BY <1>1, <1>5, UiTyped, UiAssumption DEF WizardConfirm, CountsTyped
  <2> QED
    BY <2>1, <2>2, <2>3, StaysDialog
<1> QED
  BY <1>4, <1>5 DEF WizardConfirm

LEMMA WizardButtonKeeps ==
  ASSUME DialogInv, WizardButton
  PROVE  DialogInv'
<1>1. UiType /\ catalog \in Catalogs
  BY DEF DialogInv, UiType, TypeOK
<1>2. ASSUME Saves, catalog' \in Catalogs PROVE DialogInv'
  BY <1>2, SavesTyped, DialogSaves
<1>3. CASE StartWizard \/ ResetWizard
  BY <1>3, BeginKeeps DEF StartWizard, ResetWizard
<1>4. ASSUME NEW i, WizardRule(i) PROVE DialogInv'
  BY <1>2, <1>4, SavingMoves DEF WizardRule
<1>5. ASSUME NEW p \in Preset, WizardPreset(p) PROVE DialogInv'
  BY <1>1, <1>2, <1>5, SavingMoves DEF WizardPreset
<1>6. CASE WizardCustomFilters
  BY <1>1, <1>2, <1>6, SavingMoves DEF WizardCustomFilters
<1>7. CASE WizardSkipFilters
  BY <1>1, <1>2, <1>7, SavingMoves DEF WizardSkipFilters
<1>8. ASSUME NEW seconds \in Cooldown, WizardCooldownPreset(seconds) PROVE DialogInv'
  BY <1>1, <1>2, <1>8, SavingMoves DEF WizardCooldownPreset
<1>9. CASE WizardBack
  BY <1>1, <1>2, <1>9, SavingMoves DEF WizardBack
<1>10. CASE WizardAskCooldown
  <2>1. PICK stray \in Stray("cooldown") :
          \/ Arrives([at |-> "cooldown", says |-> Absent], "wizard", stray)
          \/ AnswerLost
    BY <1>10 DEF WizardAskCooldown
  <2>2. draft' = draft /\ pending' = WizardCooldown /\ stray \in BOOLEAN
    BY <1>10, <2>1, StrayIs DEF WizardAskCooldown
  <2>3. /\ [at |-> "cooldown", says |-> Absent].at \in Steps
        /\ [at |-> "cooldown", says |-> Absent]
             = [at |-> [at |-> "cooldown", says |-> Absent].at,
                says |-> [at |-> "cooldown", says |-> Absent].says]
    BY DEF Steps
  <2> DEFINE m == [at |-> "cooldown", says |-> Absent]
             q == "wizard"
  <2>5. /\ m.at \in Steps /\ m = [at |-> m.at, says |-> m.says]
        /\ q \in {Absent, "filters", "wizard", "card"}
        /\ Arrives(m, q, stray) \/ AnswerLost \/ NoMessage(stray)
    BY <2>1, <2>3
  <2> HIDE DEF m, q
  <2>6. draft' \in Draft \cup {Absent} /\ pending' \in Card \cup {WizardCooldown, Absent}
    BY <1>1, <2>2 DEF UiType, TypeOK
  <2>7. DialogTyped'
    BY <1>1, <2>2, <2>5, <2>6, AnsweredTyped
  <2>8. AlertsTyped' /\ CountsTyped'
    BY <1>1, <1>10, TypesKept DEF WizardAskCooldown, Elsewhere
  <2> QED
    BY <1>10, <2>7, <2>8, UiTypedNext, DialogAsksCooldown
<1>11. ASSUME NEW a \in Alert, WizardConfirm(a) PROVE DialogInv'
  BY <1>11, ConfirmKeeps
<1>12. CASE WizardRefused
  <2>1. PICK stray \in Stray("preview") :
          Arrives([at |-> "preview", says |-> Absent], asked, stray) \/ AnswerLost
    BY <1>12 DEF WizardRefused
  <2>2. UNCHANGED <<draft, index, pending>> /\ stray \in BOOLEAN
    BY <1>12, <2>1, StrayIs DEF WizardRefused, session
  <2> DEFINE m == [at |-> "preview", says |-> Absent]
  <2>3. /\ m.at \in Steps /\ m = [at |-> m.at, says |-> m.says]
        /\ Arrives(m, asked, stray) \/ AnswerLost \/ NoMessage(stray)
    BY <2>1 DEF Steps
  <2> HIDE DEF m
  <2>4. /\ draft' \in Draft \cup {Absent} /\ pending' \in Card \cup {WizardCooldown, Absent}
        /\ asked \in {Absent, "filters", "wizard", "card"}
    BY <1>1, <2>2 DEF UiType, TypeOK
  <2>5. DialogTyped'
    BY <1>1, <2>2, <2>3, <2>4, AnsweredTyped
  <2>6. AlertsTyped' /\ CountsTyped'
    BY <1>1, <1>12, <2>2, TypesKept DEF WizardRefused, Elsewhere
  <2> QED
    BY <1>12, <2>5, <2>6, UiTypedNext, DialogRefused
<1>13. CASE WizardCancel
  <2>1. UiType'
    BY <1>1, <1>13, ClearedTyped DEF WizardCancel, Forget, UiType, TypeOK
  <2> QED
    BY <1>13, <2>1, DialogCleared DEF WizardCancel, ClearSession
<1> QED
  BY <1>3, <1>4, <1>5, <1>6, <1>7, <1>8, <1>9, <1>10, <1>11, <1>12, <1>13 DEF WizardButton

\* The card's buttons: the alert they resolve to is written with a value of its type.
LEMMA ApplyTyped ==
  ASSUME UiType, NEW token \in Token, NEW seconds \in Cooldown, ApplyCooldown(token, seconds),
         UNCHANGED index
  PROVE  AlertsTyped'
<1>1. PICK b \in Alert :
        /\ Resolves(token, b)
        /\ \/ UNCHANGED alerts
           \/ Update(b, [alerts[b] EXCEPT !.cooldown = seconds])
        /\ Shows(token, b) \/ UNCHANGED cards
  BY DEF ApplyCooldown
<1>2. [alerts[b] EXCEPT !.cooldown = seconds] \in Saved
  BY <1>1, SavedUpdates DEF Resolves
<1>3. alerts' \in [Alert -> {Absent} \cup Saved]
  BY <1>1, <1>2, Updated DEF UiType
<1> QED
  BY <1>1, <1>3, CardShown

LEMMA ApplyKeeps ==
  ASSUME DialogInv, NEW token \in Token, NEW seconds \in Cooldown, ApplyCooldown(token, seconds),
         UNCHANGED <<draft, index, catalog, latest, strayed, made, lost>>
  PROVE  DialogInv'
<1>1. UiType /\ AlertsTyped' /\ CountsTyped'
  BY ApplyTyped, TypesKept DEF DialogInv
<1>2. CASE UNCHANGED <<pending, asked>>
  BY <1>1, <1>2, StaysDialog
<1>3. CASE pending' = Absent /\ asked' = IF asked = "card" THEN Absent ELSE asked
  <2>1. DialogTyped'
    BY <1>1, <1>3, UiTyped DEF DialogTyped, IsMessage
  <2> QED
    BY <1>1, <1>3, <2>1, UiTypedNext, DialogCardAnswered
<1> QED
  BY <1>2, <1>3 DEF ApplyCooldown

LEMMA CardButtonKeeps ==
  ASSUME DialogInv, CardButton
  PROVE  DialogInv'
<1>1. UiType /\ alerts \in [Alert -> {Absent} \cup Saved]
  BY DEF DialogInv, UiType
<1>2. CASE ListAlerts
  <2>1. PICK n \in 0 .. PageSize :
          \E page \in [0 .. n - 1 -> {a \in Alert : Exists(a) /\ alerts[a].enabled}] :
            index' = page
    BY <1>2 DEF ListAlerts
  <2>2. 0 .. n - 1 \subseteq Token
    BY <2>1, UiAssumption DEF Token
  <2>3. DOMAIN index' \subseteq Token /\ \A t \in DOMAIN index' : index'[t] \in Alert
    BY <2>1, <2>2
  <2>4. AlertsTyped'
    BY <1>1, <1>2, <2>3, UiTyped DEF ListAlerts, AlertsTyped
  <2>5. CountsTyped' /\ UNCHANGED <<draft, pending, latest, asked, strayed>>
    BY <1>1, <1>2, TypesKept DEF ListAlerts, histories
  <2> QED
    BY <2>4, <2>5, StaysDialog
<1>3. CASE Home
  <2>1. UiType'
    BY <1>1, <1>3, ClearedTyped DEF Home, Forget, UiType, TypeOK
  <2> QED
    BY <1>3, <2>1, DialogCleared DEF Home, ClearSession
<1>4. ASSUME NEW a \in Alert, OpenAlert(a) PROVE DialogInv'
  <2>1. DOMAIN index' \subseteq Token /\ \A t \in DOMAIN index' : index'[t] \in Alert
    BY <1>4, UiAssumption DEF OpenAlert, SingleEntry, Token
  <2>2. cards' \subseteq Token \X Alert
    BY <1>1, <1>4, UiTyped, UiAssumption DEF OpenAlert, Shows, AlertsTyped, Token
  <2>3. AlertsTyped'
    BY <1>1, <1>4, <2>1, <2>2 DEF OpenAlert, AlertsTyped
  <2>4. CountsTyped' /\ UNCHANGED <<draft, pending, latest, asked, strayed>>
    BY <1>1, <1>4, TypesKept DEF OpenAlert, histories
  <2> QED
    BY <2>3, <2>4, StaysDialog
<1>5. ASSUME NEW token \in Token, OpenCard(token) PROVE DialogInv'
  <2>1. PICK a \in Alert : Shows(token, a)
    BY <1>5 DEF OpenCard
  <2>2. AlertsTyped'
    BY <1>1, <1>5, <2>1, CardShown DEF OpenCard, session
  <2>3. CountsTyped' /\ UNCHANGED <<draft, pending, latest, asked, strayed>>
    BY <1>1, <1>5, TypesKept DEF OpenCard, histories, session
  <2> QED
    BY <2>2, <2>3, StaysDialog
<1>6. ASSUME NEW token \in Token, NEW a \in Alert, PressToggle(token, a) PROVE DialogInv'
  <2>1. PICK b \in Alert :
          /\ Resolves(token, b)
          /\ Update(b, [alerts[b] EXCEPT !.enabled = ~@])
          /\ Shows(token, b) \/ UNCHANGED cards
    BY <1>6 DEF PressToggle
  <2>2. alerts' \in [Alert -> {Absent} \cup Saved]
    BY <1>1, <2>1, SavedUpdates, Updated DEF Resolves
  <2>3. AlertsTyped' /\ CountsTyped' /\ UNCHANGED <<draft, pending, latest, asked, strayed>>
    BY <1>1, <1>6, <2>1, <2>2, CardShown, TypesKept DEF PressToggle, OnCard
  <2> QED
    BY <2>3, StaysDialog
<1>7. ASSUME NEW token \in Token, NEW a \in Alert, PressOtherCooldown(token, a)
      PROVE  DialogInv'
  <2>1. UNCHANGED <<draft, latest, strayed>> /\ pending' \in Card /\ asked' \in {"card", Absent}
    BY <1>7 DEF PressOtherCooldown, OnCard, Card
  <2>2. DialogTyped'
    BY <1>1, <2>1, UiTyped DEF DialogTyped, IsMessage
  <2>3. AlertsTyped' /\ CountsTyped'
    BY <1>1, <1>7, TypesKept DEF PressOtherCooldown, OnCard
  <2> QED
    BY <2>1, <2>2, <2>3, UiTypedNext, DialogCardAsks
<1>8. ASSUME NEW token \in Token, NEW a \in Alert, PressDelete(token, a) PROVE DialogInv'
  <2>1. PICK b \in Alert : alerts' = [alerts EXCEPT ![b] = Absent]
    BY <1>8 DEF PressDelete
  <2>2. alerts' \in [Alert -> {Absent} \cup Saved]
    BY <1>1, <2>1, AlertWritten
  <2>3. AlertsTyped' /\ CountsTyped' /\ UNCHANGED <<draft, pending, latest, asked, strayed>>
    BY <1>1, <1>8, <2>2, AlertsWritten, TypesKept DEF PressDelete, OnCard
  <2> QED
    BY <2>3, StaysDialog
<1>9. ASSUME NEW token \in Token, NEW a \in Alert, NEW seconds \in Cooldown,
             PressCooldown(token, a, seconds)
      PROVE  DialogInv'
  BY <1>9, ApplyKeeps DEF PressCooldown, OnCard
<1> QED
  BY <1>2, <1>3, <1>4, <1>5, <1>6, <1>7, <1>8, <1>9 DEF CardButton

LEMMA TextKeeps ==
  ASSUME DialogInv, Text
  PROVE  DialogInv'
<1>1. UiType /\ catalog \in Catalogs
  BY DEF DialogInv, UiType, TypeOK
<1>2. ASSUME NEW seconds \in Cooldown, TextForCard(seconds) PROVE DialogInv'
  <2>1. pending.token \in Token
    BY <1>2 DEF TextForCard, Card
  <2> QED
    BY <1>2, <2>1, ApplyKeeps DEF TextForCard
<1>3. ASSUME NEW seconds \in Cooldown, TextForCooldown(seconds) PROVE DialogInv'
  BY <1>1, <1>3, SavingMoves, SavesTyped, DialogSaves DEF TextForCooldown, ForWizard
<1>4. ASSUME ShownAgain, UNCHANGED <<index, alerts, cards, catalog, made, lost>>
      PROVE  DialogInv'
  BY <1>4, ShownAgainTyped, DialogShownAgain
<1>5. ASSUME NEW f \in Filters, TextForFilters(f) PROVE DialogInv'
  <2>1. CASE <<f, draft.rule>> \in Fits
    BY <1>1, <1>5, <2>1, SavingMoves, SavesTyped, DialogSaves DEF TextForFilters, ForWizard
  <2>2. CASE <<f, draft.rule>> \notin Fits
    <3>1. /\ draft # Absent /\ draft.step = "custom_filters" /\ pending \notin Card
          /\ Arrives(Message(draft), "filters", FALSE) \/ AnswerLost
          /\ UNCHANGED <<draft, pending, index, alerts, cards, catalog, made, lost>>
      BY <1>5, <2>2 DEF TextForFilters, ForWizard, Elsewhere, session
    <3>2. draft \in Draft /\ Rendering(draft) = "view" /\ Question(draft) = "filters"
      BY <1>1, <3>1, Renders DEF UiType, TypeOK, Question
    <3> QED
      BY <1>4, <3>1, <3>2 DEF ShownAgain
  <2> QED
    BY <2>1, <2>2
<1>6. CASE TextAgain
  <2>1. draft # Absent /\ draft.step # "custom_filters"
        /\ UNCHANGED <<draft, pending, index, alerts, cards, catalog, made, lost>>
    BY <1>6 DEF TextAgain, ForWizard, Elsewhere, session
  <2>2. ShownAgain
    BY <1>6, <2>1 DEF TextAgain, ShownAgain, WaitsForFilters
  <2> QED
    BY <1>4, <2>1, <2>2
<1>7. CASE TextRefused
  <2>1. /\ UNCHANGED <<draft, pending, index, alerts, cards, catalog, made, lost>>
        /\ Arrives([at |-> "cooldown", says |-> Absent], asked, FALSE) \/ AnswerLost
    BY <1>7 DEF TextRefused, ForWizard, Elsewhere, session
  <2> DEFINE m == [at |-> "cooldown", says |-> Absent]
  <2>2. /\ m.at \in Steps /\ m = [at |-> m.at, says |-> m.says]
        /\ Arrives(m, asked, FALSE) \/ AnswerLost \/ NoMessage(FALSE)
    BY <2>1 DEF Steps
  <2> HIDE DEF m
  <2>3. /\ draft' \in Draft \cup {Absent} /\ pending' \in Card \cup {WizardCooldown, Absent}
        /\ asked \in {Absent, "filters", "wizard", "card"}
    BY <1>1, <2>1 DEF UiType, TypeOK
  <2>4. DialogTyped'
    BY <1>1, <2>2, <2>3, AnsweredTyped
  <2>5. AlertsTyped' /\ CountsTyped'
    BY <1>1, <2>1, TypesKept
  <2> QED
    BY <1>7, <2>4, <2>5, UiTypedNext, DialogTextRefused
<1> QED
  BY <1>2, <1>3, <1>5, <1>6, <1>7 DEF Text

\* The slash commands and other writers: the alerts or the catalog, nothing of the dialog.
LEMMA BesideKeeps ==
  ASSUME DialogInv, Beside, catalog' \in Catalogs,
         alerts' \in [Alert -> {Absent} \cup Saved]
  PROVE  DialogInv'
<1>1. /\ UiType /\ UNCHANGED <<draft, pending, index, latest, cards>>
      /\ UNCHANGED <<asked, strayed, made, lost>>
  BY DEF DialogInv, Beside, session, histories
<1>2. AlertsTyped'
  BY <1>1, AlertsWritten
<1>3. CountsTyped'
  BY <1>1, UiTyped DEF CountsTyped
<1> QED
  BY <1>1, <1>2, <1>3, StaysDialog

LEMMA DialogNext == DialogInv /\ [Next]_vars => DialogInv'
<1> SUFFICES ASSUME DialogInv, [Next]_vars PROVE DialogInv'
  OBVIOUS
<1>1. UiType /\ catalog \in Catalogs /\ alerts \in [Alert -> {Absent} \cup Saved]
  BY DEF DialogInv, UiType, TypeOK
<1>2. CASE WizardButton
  BY <1>2, WizardButtonKeeps
<1>3. CASE CardButton
  BY <1>3, CardButtonKeeps
<1>4. CASE Text
  BY <1>4, TextKeeps
<1>5. ASSUME NEW a \in Alert, CommandToggle(a) PROVE DialogInv'
  <2>1. alerts' \in [Alert -> {Absent} \cup Saved]
    BY <1>1, <1>5, SavedUpdates, Updated DEF CommandToggle
  <2> QED
    BY <1>1, <1>5, <2>1, BesideKeeps DEF CommandToggle
<1>6. ASSUME NEW a \in Alert, CommandDelete(a) PROVE DialogInv'
  <2>1. alerts' \in [Alert -> {Absent} \cup Saved]
    BY <1>1, <1>6, AlertWritten DEF CommandDelete
  <2> QED
    BY <1>1, <1>6, <2>1, BesideKeeps DEF CommandDelete
<1>7. ASSUME NEW a \in Alert, CommandCreate(a) PROVE DialogInv'
  <2>1. PICK e \in BOOLEAN, seconds \in Cooldown :
          alerts' = [alerts EXCEPT ![a] = [enabled |-> e, cooldown |-> seconds]]
    BY <1>7 DEF CommandCreate
  <2>2. [enabled |-> e, cooldown |-> seconds] \in Saved
    BY WizardAssumption DEF Saved
  <2>3. alerts' \in [Alert -> {Absent} \cup Saved]
    BY <1>1, <2>1, <2>2, AlertWritten
  <2> QED
    BY <1>1, <1>7, <2>3, BesideKeeps DEF CommandCreate
<1>8. ASSUME NEW a \in Alert, NEW seconds \in Cooldown, CommandCooldown(a, seconds)
      PROVE  DialogInv'
  <2>1. alerts' \in [Alert -> {Absent} \cup Saved]
    BY <1>1, <1>8, SavedUpdates, Updated DEF CommandCooldown
  <2> QED
    BY <1>1, <1>8, <2>1, BesideKeeps DEF CommandCooldown
<1>9. CASE PublishRules
  BY <1>1, <1>9, BesideKeeps DEF PublishRules
<1>10. CASE SessionExpires
  <2>1. UiType'
    BY <1>1, <1>10, ClearedTyped DEF SessionExpires, Forget, UiType, TypeOK
  <2> QED
    BY <1>10, <2>1, DialogCleared DEF SessionExpires, ClearSession
<1>11. CASE UNCHANGED vars
  BY <1>1, <1>11, BesideKeeps DEF vars, Beside
<1> QED
  BY <1>2, <1>3, <1>4, <1>5, <1>6, <1>7, <1>8, <1>9, <1>10, <1>11 DEF Next

LEMMA DialogInit == Init => DialogInv
<1> SUFFICES ASSUME Init PROVE DialogInv
  OBVIOUS
<1>1. UiType /\ draft = Absent /\ asked = Absent
  BY TypeInit DEF Init
<1> QED
  BY <1>1, AbsentIs DEF DialogInv, InOrder, ShowsDraft, AskedInOrder, CooldownKnown

LEMMA DialogHolds == Spec => []DialogInv
BY DialogInit, DialogNext, PTL DEF Spec

-----------------------------------------------------------------------------
(* The alerts made from the draft in the session. *)

\* Every alert a draft has become, but the one that ended it, is one Redis failed to record.
Counted == made <= lost

LEMMA CountedNext == DialogInv /\ Counted /\ [Next]_vars => Counted'
<1> SUFFICES ASSUME DialogInv, Counted, [Next]_vars PROVE Counted'
  OBVIOUS
<1>1. made \in Nat /\ lost \in Nat
  BY DEF DialogInv, UiType, TypeOK
<1>2. (made' = made /\ lost' = lost) \/ (made' = 0 /\ lost' = 0) => Counted'
  BY <1>1 DEF Counted
<1>3. \A d, stray : Save(d, stray) => made' = made /\ lost' = lost
  BY DEF Save
<1>4. CASE WizardButton
  <2>1. ASSUME Begin PROVE Counted'
    BY <1>2, <2>1 DEF Begin
  <2>2. ASSUME NEW i, WizardRule(i) PROVE Counted'
    BY <1>2, <1>3, <2>2 DEF WizardRule
  <2>3. ASSUME NEW p, WizardPreset(p) PROVE Counted'
    BY <1>2, <1>3, <2>3 DEF WizardPreset
  <2>4. CASE WizardCustomFilters \/ WizardSkipFilters \/ WizardBack
    BY <1>2, <1>3, <2>4 DEF WizardCustomFilters, WizardSkipFilters, WizardBack
  <2>5. ASSUME NEW seconds, WizardCooldownPreset(seconds) PROVE Counted'
    BY <1>2, <1>3, <2>5 DEF WizardCooldownPreset
  <2>6. CASE WizardAskCooldown \/ WizardRefused
    BY <1>2, <2>6 DEF WizardAskCooldown, WizardRefused
  <2>7. ASSUME NEW a \in Alert, WizardConfirm(a) PROVE Counted'
    <3>1. CASE ClearSession
      <4>1. CASE draft' = Absent
        BY <1>2, <3>1, <2>7, <4>1, <1>1 DEF WizardConfirm, Forget, ClearSession, Counted, session, InStep
      <4> QED
        BY <3>1, <4>1 DEF ClearSession
    <3>2. CASE made' = made + 1 /\ lost' = lost + 1
      BY <1>1, <3>2 DEF Counted
    <3> QED
      BY <2>7, <3>1, <3>2 DEF WizardConfirm
  <2>8. CASE WizardCancel
    BY <1>2, <2>8 DEF WizardCancel, Forget
  <2> QED
    BY <1>4, <2>1, <2>2, <2>3, <2>4, <2>5, <2>6, <2>7, <2>8
       DEF WizardButton, StartWizard, ResetWizard
<1>5. CASE CardButton
  BY <1>2, <1>5 DEF CardButton, ListAlerts, Home, OpenAlert, OpenCard, PressToggle,
     PressOtherCooldown, PressDelete, PressCooldown, OnCard, Forget, histories
<1>6. CASE Text
  BY <1>2, <1>3, <1>6 DEF Text, TextForCard, TextForCooldown, TextForFilters, TextRefused,
     TextAgain
<1>7. CASE \/ \E a \in Alert :
                \/ CommandToggle(a) \/ CommandDelete(a) \/ CommandCreate(a)
                \/ \E seconds \in Cooldown : CommandCooldown(a, seconds)
           \/ PublishRules
  BY <1>2, <1>7 DEF CommandToggle, CommandDelete, CommandCreate, CommandCooldown,
     PublishRules, Beside, histories
<1>8. CASE SessionExpires \/ UNCHANGED vars
  BY <1>2, <1>8 DEF SessionExpires, Forget, vars, histories
<1> QED
  BY <1>4, <1>5, <1>6, <1>7, <1>8 DEF Next

-----------------------------------------------------------------------------
(* The theorems. *)

\* Every variable of the dialog has its type, whatever buttons of whatever messages are
\* pressed: the session, the message and the alerts are what the handlers expect to load.
THEOREM DialogTypeCorrect == Spec => []TypeOK
<1>1. DialogInv => TypeOK
  BY DEF DialogInv, UiType
<1> QED
  BY <1>1, DialogHolds, PTL

\* A user who answers only the latest message of the wizard and misses none never meets a
\* draft that cannot be shown, or a preview that cannot be turned into an alert (wizard.py).
THEOREM DraftsAreSound == Spec => []DraftSound
<1>1. DialogInv => DraftSound
  <2> SUFFICES ASSUME DialogInv, draft # Absent, ~strayed
               PROVE  /\ Rendering(draft) = "view"
                      /\ draft.step = "preview" => CanFinalise(draft)
    BY DEF DraftSound
  <2>1. draft \in Draft /\ Consistent(draft)
    BY DEF DialogInv, UiType, TypeOK, InOrder
  <2> QED
    BY <2>1, Renders DEF Consistent, CanFinalise
<1> QED
  BY <1>1, DialogHolds, PTL

\* A preview that is the latest message says what its Create button creates, after any
\* buttons, texts and publications, unless the answer to a later request was lost.
THEOREM PreviewsAreHonest == Spec => []PreviewHonest
<1>1. DialogInv => PreviewHonest
  BY DEF DialogInv, ShowsDraft, PreviewHonest
<1> QED
  BY <1>1, DialogHolds, PTL

\* However often Create is tapped or delivered, a draft becomes one alert, and one more for
\* every time Redis failed to clear the session after the alert was written.
THEOREM DraftsBecomeOneAlert == Spec => []OneAlertPerDraft
<1>1. Init => Counted
  BY DEF Init, Counted
<1>2. DialogInv /\ Counted => OneAlertPerDraft
  BY DEF DialogInv, UiType, TypeOK, Counted, OneAlertPerDraft
<1> QED
  BY <1>1, <1>2, CountedNext, DialogHolds, PTL DEF Spec

\* A text is taken by the form that asked for one last, or by none: the wizard's filters, the
\* wizard's cooldown and the cooldown of a card share the session and do not answer for each
\* other, but for filters that take the seconds an older keyboard of the wizard asked for
\* (wizard.py, _callbacks.py).
THEOREM TextsGoWhereAsked == Spec => TextGoesWhereAsked
<1>1. DialogInv /\ [Next]_vars =>
        [/\ (\E f \in Filters : TextForFilters(f)) =>
              asked # "card" /\ (~strayed => asked # "wizard")
         /\ (\E s \in Cooldown : TextForCooldown(s)) => asked \notin {"filters", "card"}
         /\ (\E s \in Cooldown : TextForCard(s)) => asked \notin {"filters", "wizard"}]_vars
  BY AbsentIs DEF DialogInv, AskedInOrder, WaitsForFilters, TextForFilters, TextForCooldown,
     TextForCard, ForWizard
<1> QED
  BY <1>1, DialogHolds, PTL DEF Spec, TextGoesWhereAsked

=============================================================================
