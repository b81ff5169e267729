---------------------------- MODULE MCTelegramUi -----------------------------
(* Two rules of two types, two versions of the catalog.                    *)
EXTENDS TelegramUi, TLC

CONSTANTS a1, a2, r1, r2, balanced, none, filters

MCCatalogs == {<<r1>>, <<r2, r1>>}
MCPresetCooldown == (balanced :> 180)
MCFits == {<<none, r1>>, <<none, r2>>, <<filters, r1>>}
=============================================================================
