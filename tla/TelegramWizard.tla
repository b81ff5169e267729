---------------------------- MODULE TelegramWizard ---------------------------
(***************************************************************************)
(* What the buttons and texts of the create-alert wizard (wizard.py) make  *)
(* of its draft, the dictionary a session keeps under WIZARD_KEY.  A key   *)
(* that is not in the dictionary is Absent.  rule_id, rule_version,        *)
(* alert_type and rule_name are set and removed together: `rule'.  The     *)
(* catalog's identity hash stands for the catalog: `hash' is the catalog   *)
(* the draft was begun or last synchronised with.                          *)
(***************************************************************************)
EXTENDS Naturals, Sequences

CONSTANTS
  Rule,            \* identities of server rules, with their type
  Catalogs,        \* active rule sets, each in the order the keyboard shows
  Preset,          \* ids of the sensitivity presets, the same for every type
  PresetCooldown,  \* [Preset -> Nat]
  CustomCooldown,  \* custom_path_cooldown_seconds
  Cooldown,        \* cooldowns a user picks or types
  Filters,         \* what custom filter lines are parsed to; no restriction is among them
  NoFilters,
  Fits,            \* <<filters, rule>>: the filters are valid for the rule's type
  Absent

ASSUME WizardAssumption ==
  /\ Catalogs \subseteq Seq(Rule) \ {<<>>}
  /\ PresetCooldown \in [Preset -> Nat]
  /\ CustomCooldown \in Nat /\ Cooldown \subseteq Nat
  /\ NoFilters \in Filters /\ Fits \subseteq Filters \X Rule
  /\ \A r \in Rule : <<NoFilters, r>> \in Fits
  /\ Absent \notin Rule \cup Preset \cup Filters \cup Nat \cup {"preset", "custom"}

Steps == {"rule", "sensitivity", "custom_filters", "cooldown", "preview"}

Draft == [step : Steps, hash : Catalogs, rule : Rule \cup {Absent},
          mode : {"preset", "custom", Absent}, preset : Preset \cup {Absent},
          filters : Filters \cup {Absent}, cooldown : Nat \cup {Absent}]

\* start_wizard, and the reset when the catalog has changed.
Fresh(catalog) ==
  [step |-> "rule", hash |-> catalog, rule |-> Absent, mode |-> Absent,
   preset |-> Absent, filters |-> Absent, cooldown |-> Absent]

PickRule(d, rule) == [d EXCEPT !.rule = rule, !.step = "sensitivity"]

PickPreset(d, p) ==
  [d EXCEPT !.mode = "preset", !.preset = p, !.cooldown = PresetCooldown[p],
            !.filters = Absent, !.step = "cooldown"]

AskFilters(d) ==
  [d EXCEPT !.mode = "custom", !.preset = Absent, !.filters = NoFilters,
            !.step = "custom_filters"]

\* Filters that were typed, or none after `skip'.
TakeFilters(d, f) ==
  [d EXCEPT !.filters = f, !.cooldown = CustomCooldown, !.step = "cooldown"]

TakeCooldown(d, seconds) == [d EXCEPT !.cooldown = seconds, !.step = "preview"]

\* Mutant: Back forgets the preset with the rest of a preview.
BackTooFar(d) ==
  CASE d.step = "sensitivity" ->
         [d EXCEPT !.rule = Absent, !.mode = Absent, !.step = "rule"]
    [] d.step = "custom_filters" ->
         [d EXCEPT !.filters = Absent, !.mode = Absent, !.step = "sensitivity"]
    [] d.step = "cooldown" ->
         [d EXCEPT !.cooldown = Absent,
                   !.step = IF d.mode = "custom" THEN "custom_filters" ELSE "sensitivity"]
    [] d.step = "preview" -> [d EXCEPT !.preset = Absent, !.step = "cooldown"]
    [] d.step = "rule" -> d

Back(d) ==
  CASE d.step = "sensitivity" ->
         [d EXCEPT !.rule = Absent, !.mode = Absent, !.step = "rule"]
    [] d.step = "custom_filters" ->
         [d EXCEPT !.filters = Absent, !.mode = Absent, !.step = "sensitivity"]
    [] d.step = "cooldown" ->
         [d EXCEPT !.cooldown = Absent,
                   !.step = IF d.mode = "custom" THEN "custom_filters" ELSE "sensitivity"]
    [] d.step = "preview" -> [d EXCEPT !.step = "cooldown"]
    [] d.step = "rule" -> d

\* The profile of a draft can be looked up; state["sensitivity_id"] is a KeyError without.
HasProfile(d) == d.mode = "custom" \/ d.preset # Absent

\* What the renderer of the step does: a view, a toast that leaves the message as it is,
\* or an exception, which the webhook answers with 500.
Rendering(d) ==
  CASE d.step \in {"rule", "custom_filters"} -> "view"
    [] d.step = "sensitivity" -> IF d.rule = Absent THEN "toast" ELSE "view"
    [] d.step \in {"cooldown", "preview"} ->
         IF d.step = "preview" /\ d.cooldown = Absent THEN "error"
         ELSE IF d.rule = Absent THEN "toast"
         ELSE IF HasProfile(d) THEN "view" ELSE "error"

\* build_alert_payload: what a preview says and a confirmation creates.
Payload(d) ==
  [rule |-> d.rule,
   profile |-> IF d.mode = "custom" THEN d.filters ELSE d.preset,
   cooldown |-> d.cooldown]

\* _finalise reads rule_id and the profile without asking whether they are there.
CanFinalise(d) == d.rule # Absent /\ HasProfile(d)

\* The create pipeline accepts the payload: the rule is in the catalog it reads, and custom
\* filters are valid for the rule's type.
Accepted(d, catalog) ==
  /\ \E i \in DOMAIN catalog : catalog[i] = d.rule
  /\ d.mode = "custom" => <<d.filters, d.rule>> \in Fits

=============================================================================
