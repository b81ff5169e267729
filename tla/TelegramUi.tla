------------------------------ MODULE TelegramUi -----------------------------
(***************************************************************************)
(* The bot's dialog with one user: the webhook (telegram_webhook.py), the  *)
(* buttons and texts it dispatches (_callbacks.py, wizard.py), the slash   *)
(* commands on alerts (alerts.py), and the session they share, one Redis   *)
(* key with three slots.                                                   *)
(*                                                                         *)
(* A handler runs from the load of the session to its save without giving  *)
(* the event loop away, so it is one action; what can go wrong in between  *)
(* is Redis failing after Postgres was written.  Its answer is sent after  *)
(* it: an edit that fails is sent as a new message, and when that fails as *)
(* well the user sees nothing of what was saved.                           *)
(*                                                                         *)
(* Keyboards stay in the chat.  A button of the wizard is pressed on the   *)
(* latest message of the wizard, or on any older one: an old keyboard, a   *)
(* second tap, an update Telegram delivers again after an error.  Other    *)
(* writers of the alerts do what the slash commands do.                    *)
(***************************************************************************)
EXTENDS TelegramWizard, FiniteSets

CONSTANTS
  Alert,       \* ids of the user's alerts
  PageSize,    \* ALERTS_PAGE_SIZE
  MaxLost      \* bound on the confirmations of one draft whose session Redis fails to clear

ASSUME UiAssumption ==
  /\ PageSize \in Nat \ {0} /\ MaxLost \in Nat
  /\ Absent \notin Alert \cup {"filters", "wizard", "card"}
  /\ Absent \notin [form : {"wizard"}] \cup [form : {"card"}, token : Nat]

VARIABLES
  draft,    \* session: the wizard's slot
  index,    \* session: alerts_index, from tokens to alerts
  pending,  \* session: pending_input
  catalog,  \* the active rules
  alerts,   \* the user's alerts in Postgres
  latest,   \* the latest message of the wizard in the chat
  cards,    \* history: the cards shown, each a token with the alert it showed
  asked,    \* history: what the latest question for a text is about, if the user is sure to know
  strayed,  \* history: since the draft was begun, an older message was used or an answer lost
  made,     \* history: alerts made from the draft in the session
  lost      \* history: of these, how often Redis failed to clear it

session == <<draft, index, pending>>
histories == <<asked, strayed, made, lost>>
vars == <<session, catalog, alerts, latest, cards, histories>>

-----------------------------------------------------------------------------

Token == 0 .. PageSize - 1
Saved == [enabled : BOOLEAN, cooldown : Nat]
Exists(a) == alerts[a] # Absent
Card == [form : {"card"}, token : Token]
WizardCooldown == [form |-> "wizard"]

\* A message of the wizard: the step whose keyboard it has and, if it is a preview, what it
\* says (Absent once the answer to a later request was lost).
Message(d) ==
  [at |-> d.step, says |-> IF d.step = "preview" THEN Payload(d) ELSE Absent]

Question(d) == IF d.step = "custom_filters" THEN "filters" ELSE Absent

Init ==
  /\ draft = Absent /\ index = <<>> /\ pending = Absent
  /\ catalog \in Catalogs
  /\ alerts \in [Alert -> {Absent} \cup [enabled : {TRUE}, cooldown : {CustomCooldown}]]
  /\ latest = Absent /\ cards = {}
  /\ asked = Absent /\ strayed = FALSE /\ made = 0 /\ lost = 0

\* The answer is not seen: neither edited nor sent, 502.
AnswerLost ==
  /\ strayed' = TRUE /\ asked' = Absent
  /\ latest' = IF latest = Absent THEN Absent ELSE [latest EXCEPT !.says = Absent]

\* A message of the wizard arrives.
Arrives(message, question, stray) ==
  /\ latest' = message /\ asked' = question /\ strayed' = (strayed \/ stray)

\* A toast or an error leaves the messages as they are.
NoMessage(stray) ==
  /\ strayed' = (strayed \/ stray) /\ UNCHANGED <<latest, asked>>

\* A button of that step's keyboard, on the latest message or on an older one.
Stray(at) == {TRUE} \cup {FALSE : x \in {y \in {latest} : y # Absent /\ y.at = at}}

Elsewhere == UNCHANGED <<alerts, cards, index>>

-----------------------------------------------------------------------------
(* The wizard. *)

\* A fresh draft, saved and shown.  Rules that cannot be loaded fail the request before
\* anything is saved or sent, here and in every other button of the wizard.
Begin ==
  /\ draft' = Fresh(catalog) /\ pending' = Absent
  /\ made' = 0 /\ lost' = 0
  /\ \/ /\ latest' = Message(Fresh(catalog)) /\ asked' = Absent /\ strayed' = FALSE
     \/ AnswerLost
  /\ Elsewhere /\ UNCHANGED catalog

\* /new, and the button of the home menu.
StartWizard == Begin

CatalogChanged == draft # Absent /\ draft.hash # catalog

\* _sync_catalog_or_reset, before every button but Cancel.
ResetWizard == CatalogChanged /\ Begin

InStep == draft # Absent /\ ~CatalogChanged

\* Mutant: the slot of the text a card asked for is kept.
SaveWithPending(d) == draft' = d /\ UNCHANGED pending

\* _save_state: the question that was open is dropped.
SaveDraft(d) == draft' = d /\ pending' = Absent

\* Mutant: a preview that is being changed is left in the chat as it is.
SaveQuietly(d, stray) ==
  /\ SaveDraft(d)
  /\ IF Rendering(d) = "view" /\ draft.step # "preview"
     THEN Arrives(Message(d), Question(d), stray) \/ AnswerLost
     ELSE NoMessage(stray)
  /\ Elsewhere /\ UNCHANGED <<made, lost>>

\* The draft is saved, and then rendered.
Save(d, stray) ==
  /\ SaveDraft(d)
  /\ IF Rendering(d) = "view"
     THEN Arrives(Message(d), Question(d), stray) \/ AnswerLost
     ELSE NoMessage(stray)
  /\ Elsewhere /\ UNCHANGED <<made, lost>>

\* The rules are loaded again for the pick, after the hash was compared.
WizardRule(i) ==
  /\ InStep /\ catalog' \in Catalogs /\ i \in DOMAIN catalog'
  /\ \E stray \in Stray("rule") : Save(PickRule(draft, catalog'[i]), stray)

WizardPreset(p) ==
  /\ InStep /\ draft.rule # Absent /\ UNCHANGED catalog
  /\ \E stray \in Stray("sensitivity") : Save(PickPreset(draft, p), stray)

WizardCustomFilters ==
  /\ InStep /\ UNCHANGED catalog
  /\ \E stray \in Stray("sensitivity") : Save(AskFilters(draft), stray)

WizardSkipFilters ==
  /\ InStep /\ draft.step = "custom_filters" /\ UNCHANGED catalog
  /\ \E stray \in Stray("custom_filters") : Save(TakeFilters(draft, NoFilters), stray)

WizardCooldownPreset(seconds) ==
  /\ InStep /\ UNCHANGED catalog
  /\ \E stray \in Stray("cooldown") : Save(TakeCooldown(draft, seconds), stray)

\* The slot for a typed cooldown; the question is asked with the cooldown keyboard, in
\* whatever step the draft is.
WizardAskCooldown ==
  /\ InStep
  /\ pending' = WizardCooldown
  /\ \E stray \in Stray("cooldown") :
       \/ Arrives([at |-> "cooldown", says |-> Absent], "wizard", stray)
       \/ AnswerLost
  /\ Elsewhere /\ UNCHANGED <<draft, catalog, made, lost>>

WizardBack ==
  /\ InStep /\ UNCHANGED catalog
  /\ \E stray \in UNION {Stray(at) : at \in Steps \ {"rule"}} : Save(Back(draft), stray)

\* Mutant: the session is kept when the alert has been created.
ClearNothing == UNCHANGED session

ClearSession == draft' = Absent /\ index' = <<>> /\ pending' = Absent

\* With the draft go the counts of what was made from it.
Forget == made' = 0 /\ lost' = 0

Created(a, cooldown) == alerts' = [alerts EXCEPT ![a] = [enabled |-> TRUE, cooldown |-> cooldown]]

\* The alert is written, then the session is cleared, which Redis may fail to do.
WizardConfirm(a) ==
  /\ InStep /\ draft.step = "preview" /\ CanFinalise(draft) /\ Accepted(draft, catalog)
  /\ ~Exists(a) /\ Created(a, draft.cooldown)
  /\ \/ /\ ClearSession
        /\ IF draft' = Absent THEN Forget ELSE made' = made + 1 /\ UNCHANGED lost
        /\ (latest' = Absent /\ asked' = Absent) \/ UNCHANGED <<latest, asked>>
        /\ strayed' = FALSE
     \/ /\ lost < MaxLost
        /\ made' = made + 1 /\ lost' = lost + 1
        /\ UNCHANGED session /\ NoMessage(FALSE)
  /\ UNCHANGED <<catalog, cards>>

\* The error is shown with the keyboard of the preview.
WizardRefused ==
  /\ InStep /\ draft.step = "preview" /\ CanFinalise(draft) /\ ~Accepted(draft, catalog)
  /\ \E stray \in Stray("preview") :
       Arrives([at |-> "preview", says |-> Absent], asked, stray) \/ AnswerLost
  /\ Elsewhere /\ UNCHANGED <<session, catalog, made, lost>>

WizardCancel ==
  /\ draft # Absent
  /\ ClearSession /\ Forget /\ latest' = Absent /\ asked' = Absent
  /\ UNCHANGED <<catalog, alerts, cards, strayed>>

-----------------------------------------------------------------------------
(* The list of alerts and the card of one. *)

Shows(token, a) == cards' = cards \cup {<<token, a>>}

\* /alerts, the button of it, and its pages: the tokens of what was shown before are taken.
\* Every page but the last is full, and the list has no order that lasts.
ListAlerts ==
  /\ LET active == {a \in Alert : Exists(a) /\ alerts[a].enabled} IN
     \E n \in 0 .. PageSize : \E page \in [0 .. n - 1 -> active] :
       /\ \A s, t \in DOMAIN page : page[s] = page[t] => s = t
       /\ n < PageSize => n = Cardinality(active) % PageSize /\ (n = 0 => active = {})
       /\ index' = page
  /\ UNCHANGED <<draft, pending, catalog, alerts, latest, cards, histories>>

\* Mutant: tokens are counted from one.
SingleEntryFromOne(a) == [t \in {1} |-> a]

SingleEntry(a) == [t \in {0} |-> a]

\* /alert <id>
OpenAlert(a) ==
  /\ Exists(a)
  /\ index' = SingleEntry(a)
  /\ Shows(0, a) \/ UNCHANGED cards
  /\ UNCHANGED <<draft, pending, catalog, alerts, latest, histories>>

\* resolve_card_alert
Resolves(token, a) == token \in DOMAIN index /\ index[token] = a /\ Exists(a)

\* A button of the list.
OpenCard(token) ==
  /\ \E a \in Alert : Resolves(token, a) /\ Shows(token, a)
  /\ UNCHANGED <<session, catalog, alerts, latest, histories>>

\* persist_alert_update; a conflict with another writer leaves the alert to that one.
Update(a, saved) == alerts' = [alerts EXCEPT ![a] = saved] \/ UNCHANGED alerts

\* The buttons on a card that once showed alert a, or on the dialogs it opens.
OnCard(token, a) ==
  /\ <<token, a>> \in cards
  /\ UNCHANGED <<draft, index, catalog, latest, strayed, made, lost>>

PressToggle(token, a) ==
  /\ \E b \in Alert :
       /\ Resolves(token, b)
       /\ Update(b, [alerts[b] EXCEPT !.enabled = ~@])
       /\ Shows(token, b) \/ UNCHANGED cards
  /\ OnCard(token, a) /\ UNCHANGED <<pending, asked>>

\* _apply_cooldown: the question for a text is dropped once the alert is written.
ApplyCooldown(token, seconds) ==
  \E b \in Alert :
    /\ Resolves(token, b)
    /\ \/ /\ alerts[b].cooldown = seconds
          /\ UNCHANGED <<alerts, pending, asked>>
       \/ /\ alerts[b].cooldown # seconds
          /\ Update(b, [alerts[b] EXCEPT !.cooldown = seconds])
          /\ \/ UNCHANGED <<pending, asked>>   \* the conflict, or Redis fails
             \/ /\ alerts'[b].cooldown = seconds /\ pending' = Absent
                /\ asked' = IF asked = "card" THEN Absent ELSE asked
    /\ Shows(token, b) \/ UNCHANGED cards

PressCooldown(token, a, seconds) == ApplyCooldown(token, seconds) /\ OnCard(token, a)

\* The question may be lost on its way.
PressOtherCooldown(token, a) ==
  /\ pending' = [form |-> "card", token |-> token]
  /\ asked' \in {"card", Absent}
  /\ UNCHANGED <<alerts, cards>> /\ OnCard(token, a)

PressDelete(token, a) ==
  /\ \E b \in Alert : Resolves(token, b) /\ alerts' = [alerts EXCEPT ![b] = Absent]
  /\ OnCard(token, a) /\ UNCHANGED <<pending, cards, asked>>

\* The menu's Home button.
Home ==
  /\ ClearSession /\ Forget /\ asked' = Absent
  /\ UNCHANGED <<catalog, alerts, latest, cards, strayed>>

-----------------------------------------------------------------------------
(* Texts that are no command. *)

\* What is no number of seconds is answered with an error, and changes nothing.
TextForCard(seconds) ==
  /\ pending \in Card
  /\ ApplyCooldown(pending.token, seconds)
  /\ UNCHANGED <<draft, index, catalog, latest, strayed, made, lost>>

\* handle_wizard_text; the catalog is not looked at.
ForWizard == draft # Absent /\ pending \notin Card /\ UNCHANGED catalog

\* Filters that do not fit the rule's type are refused, and the question asked again.
TextForFilters(f) ==
  /\ ForWizard /\ draft.step = "custom_filters" /\ draft.rule # Absent
  /\ IF <<f, draft.rule>> \in Fits
     THEN Save(TakeFilters(draft, f), FALSE)
     ELSE /\ Arrives(Message(draft), "filters", FALSE) \/ AnswerLost
          /\ Elsewhere /\ UNCHANGED <<session, made, lost>>

TextForCooldown(seconds) ==
  /\ ForWizard /\ draft.step # "custom_filters" /\ pending = WizardCooldown
  /\ Save(TakeCooldown(draft, seconds), FALSE)

\* What is no number of seconds is answered with an error and the cooldown keyboard.
TextRefused ==
  /\ ForWizard /\ draft.step # "custom_filters" /\ pending = WizardCooldown
  /\ Arrives([at |-> "cooldown", says |-> Absent], asked, FALSE) \/ AnswerLost
  /\ Elsewhere /\ UNCHANGED <<session, made, lost>>

\* No text was asked for: the step is shown again.
TextAgain ==
  /\ ForWizard /\ draft.step # "custom_filters" /\ pending = Absent
  /\ IF Rendering(draft) = "view"
     THEN Arrives(Message(draft), Question(draft), FALSE) \/ AnswerLost
     ELSE NoMessage(FALSE)
  /\ Elsewhere /\ UNCHANGED <<session, made, lost>>

-----------------------------------------------------------------------------
(* Slash commands on alerts, other writers, and what happens by itself. *)

Beside ==
  /\ UNCHANGED <<session, latest, cards, histories>>

\* /enable, /disable
CommandToggle(a) ==
  /\ Exists(a) /\ Beside /\ UNCHANGED catalog
  /\ Update(a, [alerts[a] EXCEPT !.enabled = ~@])

\* /set_cooldown
CommandCooldown(a, seconds) ==
  /\ Exists(a) /\ Beside /\ UNCHANGED catalog
  /\ Update(a, [alerts[a] EXCEPT !.cooldown = seconds])

\* /delete <id> yes
CommandDelete(a) ==
  /\ Exists(a) /\ Beside /\ UNCHANGED catalog
  /\ alerts' = [alerts EXCEPT ![a] = Absent]

\* /create, /create_raw
CommandCreate(a) ==
  /\ ~Exists(a) /\ Beside /\ UNCHANGED catalog
  /\ \E e \in BOOLEAN, seconds \in Cooldown :
       alerts' = [alerts EXCEPT ![a] = [enabled |-> e, cooldown |-> seconds]]

PublishRules ==
  /\ catalog' \in Catalogs \ {catalog} /\ Beside /\ UNCHANGED alerts

\* Ten minutes without a save.
SessionExpires ==
  /\ ClearSession /\ Forget
  /\ UNCHANGED <<catalog, alerts, latest, cards, asked, strayed>>

-----------------------------------------------------------------------------

WizardButton ==
  \/ StartWizard \/ ResetWizard
  \/ \E c \in Catalogs : \E i \in DOMAIN c : WizardRule(i)
  \/ \E p \in Preset : WizardPreset(p)
  \/ WizardCustomFilters \/ WizardSkipFilters
  \/ \E seconds \in Cooldown : WizardCooldownPreset(seconds)
  \/ WizardAskCooldown \/ WizardBack
  \/ \E a \in Alert : WizardConfirm(a)
  \/ WizardRefused \/ WizardCancel

CardButton ==
  \/ ListAlerts \/ Home
  \/ \E a \in Alert : OpenAlert(a)
  \/ \E token \in Token : OpenCard(token)
  \/ \E token \in Token, a \in Alert :
       \/ PressToggle(token, a) \/ PressOtherCooldown(token, a) \/ PressDelete(token, a)
       \/ \E seconds \in Cooldown : PressCooldown(token, a, seconds)

Text ==
  \/ \E seconds \in Cooldown : TextForCard(seconds) \/ TextForCooldown(seconds)
  \/ \E f \in Filters : TextForFilters(f)
  \/ TextRefused \/ TextAgain

Next ==
  \/ WizardButton \/ CardButton \/ Text
  \/ \E a \in Alert :
       \/ CommandToggle(a) \/ CommandDelete(a) \/ CommandCreate(a)
       \/ \E seconds \in Cooldown : CommandCooldown(a, seconds)
  \/ PublishRules \/ SessionExpires

Spec == Init /\ [][Next]_vars

-----------------------------------------------------------------------------
(* Properties. *)

\* Every variable has its type.
TypeOK ==
  /\ draft \in Draft \cup {Absent}
  /\ DOMAIN index \subseteq Token /\ \A t \in DOMAIN index : index[t] \in Alert
  /\ pending \in Card \cup {WizardCooldown, Absent}
  /\ catalog \in Catalogs
  /\ \A a \in Alert : alerts[a] = Absent \/ alerts[a] \in Saved
  /\ latest = Absent \/ latest.at \in Steps
  /\ cards \subseteq Token \X Alert
  /\ asked \in {Absent, "filters", "wizard", "card"}
  /\ strayed \in BOOLEAN
  /\ made \in Nat /\ lost \in 0 .. MaxLost

\* A user who only answers the latest message of the wizard and misses none never meets a
\* hard failure: the draft can always be shown and, in a preview, be turned into an alert.
\* Without that condition it does not hold: a button of an older message jumps a step, and
\* the next request ends in a KeyError.
DraftSound ==
  draft # Absent /\ ~strayed =>
    /\ Rendering(draft) = "view"
    /\ draft.step = "preview" => CanFinalise(draft)

\* Whatever buttons of whatever messages were pressed and whatever was published: a preview
\* that is the latest message says what its Create button creates, unless the answer to a
\* request after it was lost.
PreviewHonest ==
  latest # Absent /\ latest.at = "preview" /\ latest.says # Absent /\ draft # Absent =>
    draft.step = "preview" /\ latest.says = Payload(draft)

\* One draft becomes one alert, however often Create is tapped or delivered; only a session
\* that Redis failed to clear is used again.
OneAlertPerDraft == made <= lost + 1

\* A text is never taken by another form than the one that asked last, be it the wizard's
\* filters, the wizard's cooldown or the cooldown of a card; a question whose answer was lost
\* asked nothing.  For one pair it takes a user who answered only the latest message of the
\* wizard and missed none: "other value" on the keyboard of an older message asks for seconds
\* also while the wizard waits for filters, and the text then goes to the filters.
TextGoesWhereAsked ==
  [][/\ (\E f \in Filters : TextForFilters(f)) => asked # "card" /\ (~strayed => asked # "wizard")
     /\ (\E s \in Cooldown : TextForCooldown(s)) => asked \notin {"filters", "card"}
     /\ (\E s \in Cooldown : TextForCard(s)) => asked \notin {"filters", "wizard"}]_vars

\* A button of a card changes no other alert than the one the card shows: the comment in
\* alerts.py says that the buttons "resolve back to this alert_id".
CardActsOnShown ==
  [][\A token \in Token, a \in Alert :
       \/ PressToggle(token, a) \/ PressDelete(token, a)
       \/ \E seconds \in Cooldown : PressCooldown(token, a, seconds)
       => \A b \in Alert \ {a} : alerts'[b] = alerts[b]]_vars

=============================================================================
